---- MODULE Spec2Model ----
(***************************************************************************)
(* A state-machine model of the concurrent red-black tree of rbtree.go     *)
(* (the first, current, variant in the file: lines 1-767).                 *)
(*                                                                         *)
(* The heap is a function from node identities to node records; every Go  *)
(* goroutine is a thread with a program position (pc) and the locals of    *)
(* the functions it is executing.  A step of a thread is one statement    *)
(* group of the source that touches shared memory at most a few times.    *)
(* A nil dereference is a Go panic: it ends the whole process.            *)
(*                                                                         *)
(* The tree is driven by clients: SeqSpec is one goroutine calling Insert, *)
(* Get and Delete in any order; GrowSpec one goroutine that builds trees   *)
(* of up to MaxGrow nodes; GetInsSpec an inserter beside a getter and      *)
(* InsDelSpec an inserter beside a deleter, as in rbtree_test.go;          *)
(* DrainLive one goroutine that inserts and then deletes every key;        *)
(* CheckSpec a harness that calls Check on trees at rest; TallSpec one     *)
(* goroutine that fills the tree in ascending order and then works beside  *)
(* a deleter; RootSpec two goroutines that empty and refill the tree;     *)
(* LeakSpec an inserter beside a deleter on a tree of eight keys; FixSpec *)
(* a harness that runs maintainAfterDelete and the rotations on trees at  *)
(* rest.                                                                   *)
(***************************************************************************)
EXTENDS Integers, Sequences, FiniteSets, TLC

\* ------------------------------------------------------------------ bounds
MaxKey == 4          \* keys are 1..MaxKey
MaxVal == 2          \* values are 1..MaxVal
MaxNodes == 8        \* node identities that are live at the same time
MaxGrow == 8         \* keys of the client that grows a tall tree
MaxPara == 3         \* keys of the concurrent clients
MaxStack == 12       \* deferred calls a goroutine can stack up
MaxOps == 4          \* calls made by the sequential client
MaxShape == 7        \* places of the trees handed to Check (1 the root, 2a and 2a+1 under a)
MaxTall == 62        \* keys of the client that fills the tree in ascending order
MaxRoot == 2         \* keys of the clients that empty and refill the tree
MaxFix == 15         \* places of the trees the rebalancing steps are run on
NumThreads == 2      \* goroutines

Keys == 1..MaxKey
Values == 1..MaxVal
Nodes == 1..MaxNodes
Threads == 1..NumThreads

\* ---------------------------------------------------------- program values
NIL == 0             \* the nil pointer
None == 0            \* a nil *V result
MarkerDepth == 4     \* getMarker marks at most four ancestors

VARIABLES
    node,       \* the heap: node |-> [c, left, right, parent, key, value, flag, hpflag, marker]
    root,       \* RBTree.root
    count,      \* RBTree.count
    th,         \* per goroutine: program position and locals
    role,       \* per goroutine: what the client lets it call
    hist,       \* bookkeeping of the client (test harness) and of completed calls
    panicked    \* a goroutine dereferenced nil: the process is gone

vars == <<node, root, count, th, role, hist, panicked>>

\* ------------------------------------------------------------- the heap
FreeNode ==
    [c |-> "free", left |-> NIL, right |-> NIL, parent |-> NIL, key |-> 0,
     value |-> 0, flag |-> FALSE, hpflag |-> 0, marker |-> FALSE]

NewNode(k, v, p) ==
    [c |-> "red", left |-> NIL, right |-> NIL, parent |-> p, key |-> k,
     value |-> v, flag |-> FALSE, hpflag |-> 0, marker |-> FALSE]

Range(s) == {s[i] : i \in DOMAIN s}

Min(S) == CHOOSE a \in S : \A b \in S : a <= b

\* The locals of a goroutine.  held is not a variable of the program: it
\* is the set of nodes whose flag the goroutine has taken (lock() returned
\* true, or the CAS of getMarker succeeded) and has not given back itself.
R0 ==
    [pc |-> "idle", op |-> "none", key |-> 0, val |-> 0,
     n |-> NIL, ins |-> NIL, x |-> NIL, lx |-> NIL, lk |-> NIL,
     okk |-> "", failk |-> "", likont |-> "", br |-> "",
     mstk |-> <<>>, defers |-> <<>>, l |-> <<>>, m |-> <<>>,
     s |-> NIL, rep |-> NIL, v |-> None, d |-> NIL, i |-> 0,
     liok |-> FALSE, isNew |-> FALSE, ok |-> FALSE, res |-> None, err |-> "",
     held |-> {}, mk |-> {}, dec |-> 0, again |-> FALSE, gone |-> FALSE]

\* What a goroutine keeps between two attempts of one call.
Fresh(r, pc) == [R0 EXCEPT !.pc = pc, !.op = r.op, !.key = r.key, !.val = r.val, !.res = r.res]

\* Nodes a goroutine still holds a pointer to.
ThreadRefs(r) ==
    ({r.n, r.ins, r.x, r.lx, r.lk, r.s, r.rep, r.d} \cup r.held \cup r.mk
        \cup Range(r.mstk) \cup Range(r.l) \cup Range(r.m)
        \cup {r.defers[i].n : i \in DOMAIN r.defers}) \ {NIL}

RECURSIVE Closure(_, _)
Closure(nd, S) ==
    LET T == (S \cup {nd[a].left : a \in S} \cup {nd[a].right : a \in S}
                \cup {nd[a].parent : a \in S}) \ {NIL}
    IN IF T = S THEN S ELSE Closure(nd, T)

\* Go's collector: a node no pointer leads to is never seen again, so its
\* identity can be handed out anew.
Live(nd, rt, thr) ==
    Closure(nd, ({rt} \cup UNION {ThreadRefs(thr[t]) : t \in Threads}) \ {NIL})

Collect(nd, rt, thr) ==
    LET lv == Live(nd, rt, thr)
    IN [a \in DOMAIN nd |-> IF a \in lv THEN nd[a] ELSE FreeNode]

\* A node's identity is its address, which the program never orders, prints
\* or computes with: while no goroutine holds a pointer, the live nodes can
\* be given the identities 1, 2, ... in the order of their keys.
Rank(nd, L, a) ==
    Cardinality({b \in L : nd[b].key < nd[a].key \/ (nd[b].key = nd[a].key /\ b <= a)})

Renamed(nd, L, a) == IF a = NIL THEN NIL ELSE Rank(nd, L, a)

Compact(nd, rt) ==
    LET L == Closure(nd, {rt} \ {NIL})
        at == [i \in 1..Cardinality(L) |-> CHOOSE a \in L : Rank(nd, L, a) = i]
    IN [a \in DOMAIN nd |->
          IF a > Cardinality(L) THEN FreeNode
          ELSE [nd[at[a]] EXCEPT !.left = Renamed(nd, L, @), !.right = Renamed(nd, L, @),
                                 !.parent = Renamed(nd, L, @)]]

HasFree(nd) == \E a \in DOMAIN nd : nd[a].c = "free"
Alloc(nd) == Min({a \in DOMAIN nd : nd[a].c = "free"})

\* ------------------------------------------------------- node helpers
isRed(nd, n) == n # NIL /\ nd[n].c = "red"
isBlack(nd, n) == n = NIL \/ nd[n].c = "black"

\* dir(): n is not nil
dir(nd, n) ==
    IF nd[n].parent = NIL THEN "root"
    ELSE IF nd[nd[n].parent].left # NIL /\ nd[nd[n].parent].left = n THEN "left"
    ELSE "right"

uncle(nd, n) ==
    IF nd[n].parent = NIL \/ nd[nd[n].parent].parent = NIL THEN NIL
    ELSE IF dir(nd, nd[n].parent) = "left" THEN nd[nd[nd[n].parent].parent].right
    ELSE nd[nd[nd[n].parent].parent].left

sibling(nd, n) ==
    IF nd[n].parent = NIL THEN NIL
    ELSE IF dir(nd, n) = "left" THEN nd[nd[n].parent].right
    ELSE nd[nd[n].parent].left

\* unlock() that leaves the flag as it is
unlockSkipped(nd, n) == nd

\* unlock(): CAS(true, false), nil-safe
unlock(nd, n) == IF n = NIL THEN nd ELSE [nd EXCEPT ![n].flag = FALSE]

\* unlockArea(): unlock every node of the local area
unlockArea(nd, l) ==
    [a \in DOMAIN nd |-> IF a \in Range(l) THEN [nd[a] EXCEPT !.flag = FALSE] ELSE nd[a]]

\* unlockMarker() without its loop: the markers stay.
unlockMarkerSkipped(nd, m) == nd

\* unlockMarker(): CAS(true, false) on the marker of every node of m
unlockMarker(nd, m) ==
    [a \in DOMAIN nd |-> IF a \in Range(m) THEN [nd[a] EXCEPT !.marker = FALSE] ELSE nd[a]]

\* a rotation that leaves the markers as they are
cleanMarkerSkipped(nd, n, isLeft) == nd

\* cleanMarker(left): n, its parent and the child that is promoted
cleanMarker(nd, n, isLeft) ==
    LET c1 == [nd EXCEPT ![n].marker = FALSE]
        c2 == IF nd[n].parent # NIL THEN [c1 EXCEPT ![nd[n].parent].marker = FALSE] ELSE c1
        ch == IF isLeft THEN nd[n].left ELSE nd[n].right
    IN [c2 EXCEPT ![ch].marker = FALSE]

\* A heap together with the tree's root reference.
HR(nd, rt) == [node |-> nd, root |-> rt]

\* rotateLeft that hangs n under the right link of its former right child
rotateLeftOtherLink(nd, rt, n) ==
    IF n = NIL \/ nd[n].right = NIL THEN HR(nd, rt)
    ELSE
      LET d0 == dir(nd, n)
          p == nd[n].parent
          newn == nd[n].right
          m == nd[newn].left
          h1 == [nd EXCEPT ![n].right = m, ![n].parent = newn]
          h2 == IF m # NIL THEN [h1 EXCEPT ![m].parent = n] ELSE h1
          h3 == [h2 EXCEPT ![newn].parent = p, ![newn].right = n]
      IN CASE d0 = "root" -> HR(h3, newn)
           [] d0 = "left" -> HR([h3 EXCEPT ![p].left = newn], rt)
           [] OTHER -> HR([h3 EXCEPT ![p].right = newn], rt)

\* rotateLeft(n)
rotateLeft(nd, rt, n) ==
    IF n = NIL \/ nd[n].right = NIL THEN HR(nd, rt)
    ELSE
      LET d0 == dir(nd, n)
          p == nd[n].parent
          newn == nd[n].right
          m == nd[newn].left
          h0 == cleanMarker(nd, n, FALSE)
          h1 == [h0 EXCEPT ![n].right = m, ![n].parent = newn]
          h2 == IF m # NIL THEN [h1 EXCEPT ![m].parent = n] ELSE h1
          h3 == [h2 EXCEPT ![newn].parent = p, ![newn].left = n]
      IN CASE d0 = "root" -> HR(h3, newn)
           [] d0 = "left" -> HR([h3 EXCEPT ![p].left = newn], rt)
           [] OTHER -> HR([h3 EXCEPT ![p].right = newn], rt)

\* rotateRight that leaves the parent link of the promoted child as it was
rotateRightStaleParent(nd, rt, n) ==
    IF n = NIL \/ nd[n].left = NIL THEN HR(nd, rt)
    ELSE
      LET d0 == dir(nd, n)
          p == nd[n].parent
          newn == nd[n].left
          m == nd[newn].right
          h0 == cleanMarker(nd, n, TRUE)
          h1 == [h0 EXCEPT ![n].left = m, ![n].parent = newn]
          h2 == IF m # NIL THEN [h1 EXCEPT ![m].parent = n] ELSE h1
          h3 == [h2 EXCEPT ![newn].right = n]
      IN CASE d0 = "root" -> HR(h3, newn)
           [] d0 = "left" -> HR([h3 EXCEPT ![p].left = newn], rt)
           [] OTHER -> HR([h3 EXCEPT ![p].right = newn], rt)

\* rotateRight(n)
rotateRight(nd, rt, n) ==
    IF n = NIL \/ nd[n].left = NIL THEN HR(nd, rt)
    ELSE
      LET d0 == dir(nd, n)
          p == nd[n].parent
          newn == nd[n].left
          m == nd[newn].right
          h0 == cleanMarker(nd, n, TRUE)
          h1 == [h0 EXCEPT ![n].left = m, ![n].parent = newn]
          h2 == IF m # NIL THEN [h1 EXCEPT ![m].parent = n] ELSE h1
          h3 == [h2 EXCEPT ![newn].parent = p, ![newn].right = n]
      IN CASE d0 = "root" -> HR(h3, newn)
           [] d0 = "left" -> HR([h3 EXCEPT ![p].left = newn], rt)
           [] OTHER -> HR([h3 EXCEPT ![p].right = newn], rt)

\* ------------------------------------------------ the result of one step
\* What a step of goroutine t leaves behind: the heap, the root, the count,
\* t's locals, and whether it panicked.
St(nd, rt, cnt, r) == [node |-> nd, root |-> rt, count |-> cnt, r |-> r, panic |-> FALSE]
Panic(t) == [node |-> node, root |-> root, count |-> count, r |-> th[t], panic |-> TRUE]
Same(t, r) == St(node, root, count, r)

\* lock(), first half: nil check and CompareAndSwap(false, true) on the flag.
\* On success the goroutine still has to load hpflag (LockHp).
lock(t, r, n, okk, failk) ==
    IF n = NIL \/ node[n].flag
    THEN Same(t, [r EXCEPT !.pc = failk])
    ELSE St([node EXCEPT ![n].flag = TRUE], root, count,
            [r EXCEPT !.pc = "lock_hp", !.lk = n, !.okk = okk, !.failk = failk])

\* lock(), second half: hpflag.Load() > 0 gives the flag back
LockHp(t) ==
    LET r == th[t] IN
    IF node[r.lk].hpflag > 0
    THEN St([node EXCEPT ![r.lk].flag = FALSE], root, count,
            [r EXCEPT !.pc = r.failk, !.okk = "", !.failk = ""])
    ELSE Same(t, [r EXCEPT !.pc = r.okk, !.okk = "", !.failk = ""])

\* A deferred call of the running function: unlock(n), unlockArea(),
\* unlockMarker() or hpflag.Add(-1) on n.
Defer(k, n) == [k |-> k, n |-> n]

\* ------------------------------------------------------------ lockInsert
\* lockInsert returns to its caller: insert (likont = "ins") or
\* maintainAfterInsert (likont = "mi").
LiReturn(r, ok) ==
    LET r1 == [r EXCEPT !.lx = NIL, !.lk = NIL, !.likont = ""] IN
    IF r.likont = "ins"
    THEN IF ok
         THEN [r1 EXCEPT !.pc = "mi_0", !.x = r.ins, !.mstk = <<>>,
                         !.defers = Append(r.defers, Defer("area", NIL))]
         ELSE [r1 EXCEPT !.pc = "ins_rollback"]
    ELSE IF ok
         THEN [r1 EXCEPT !.pc = "mi_recolor"]
         ELSE [r1 EXCEPT !.pc = IF r.mstk = <<>> THEN "ins_rollback" ELSE "mi_undo"]

\* l.unlockArea(); return false
LiFail(t, r) ==
    St(unlockArea(node, r.l), root, count, LiReturn([r EXCEPT !.l = <<>>], FALSE))

LiUncle(t, r) ==
    LET u == uncle(node, r.lx) IN
    IF u # NIL THEN lock(t, r, u, "li_uncle2", "li_fail")
    ELSE Same(t, LiReturn(r, TRUE))

LiGp(t, r) ==
    IF node[r.lx].parent = NIL THEN Panic(t)
    ELSE IF node[node[r.lx].parent].parent # NIL
         THEN lock(t, r, node[node[r.lx].parent].parent, "li_gp2", "li_fail")
         ELSE LiUncle(t, r)

LiSibling(t, r) ==
    LET sib == sibling(node, r.lx) IN
    IF sib # NIL THEN lock(t, r, sib, "li_sibling2", "li_fail")
    ELSE LiGp(t, r)

\* `!ok || x.isMark()` after a lock() that succeeded on r.lk
LiMarked(r) == node[r.lk].marker
LiAppend(r) == [r EXCEPT !.l = Append(r.l, r.lk), !.lk = NIL]

lockInsert(t) ==
    LET r == th[t] IN
    CASE r.pc = "li_0" ->
           IF r.lx = NIL THEN Panic(t)
           ELSE IF ~node[r.lx].flag \/ node[r.lx].marker
           THEN Same(t, LiReturn(r, FALSE))
           ELSE LET r1 == [r EXCEPT !.l = Append(r.l, r.lx)] IN
                IF node[r.lx].parent = NIL THEN Same(t, LiReturn(r1, TRUE))
                ELSE Same(t, [r1 EXCEPT !.pc = "li_parent"])
      [] r.pc = "li_parent" ->
           lock(t, r, node[r.lx].parent, "li_parent2", "li_fail")
      [] r.pc = "li_parent2" ->
           IF LiMarked(r) THEN LiFail(t, r) ELSE LiSibling(t, LiAppend(r))
      [] r.pc = "li_sibling2" ->
           IF LiMarked(r) THEN LiFail(t, r) ELSE LiGp(t, LiAppend(r))
      [] r.pc = "li_gp2" ->
           IF LiMarked(r) THEN LiFail(t, r) ELSE LiUncle(t, LiAppend(r))
      [] r.pc = "li_uncle2" ->
           IF LiMarked(r) THEN LiFail(t, r) ELSE Same(t, LiReturn(LiAppend(r), TRUE))
      [] r.pc = "li_fail" -> LiFail(t, r)

lockInsertPcs == {"li_0", "li_parent", "li_parent2", "li_sibling2", "li_gp2",
                  "li_uncle2", "li_fail"}

\* --------------------------------------------------- maintainAfterInsert
MiTrue(r) ==
    [r EXCEPT !.pc = "unwind", !.isNew = TRUE, !.ok = TRUE, !.mstk = <<>>,
              !.x = NIL, !.br = ""]

\* the two colors the wrong way round
RecolorAfterRotateSwapped(nd, p, sb) == [nd EXCEPT ![p].c = "red", ![sb].c = "black"]

\* `n.parent.c = black; n.sibling().c = red` after the single rotation
RecolorAfterRotate(nd, p, sb) == [nd EXCEPT ![p].c = "black", ![sb].c = "red"]

maintainAfterInsert(t) ==
    LET r == th[t]
        x == r.x
    IN
    CASE r.pc = "mi_0" ->
           IF isBlack(node, x) \/ node[x].parent = NIL
                \/ node[node[x].parent].c = "black"
           THEN Same(t, MiTrue(r))
           ELSE IF node[node[x].parent].parent = NIL
           THEN St([node EXCEPT ![node[x].parent].c = "black"], root, count, MiTrue(r))
           ELSE IF isRed(node, uncle(node, x))
           THEN Same(t, [r EXCEPT !.pc = "li_0", !.lx = node[node[x].parent].parent,
                                  !.likont = "mi"])
           ELSE Same(t, [r EXCEPT !.pc = "mi_rot1"])
      [] r.pc = "mi_recolor" ->
           LET p == node[x].parent IN
           IF p = NIL THEN Panic(t)
           ELSE IF node[p].parent = NIL THEN Panic(t)
           ELSE LET h1 == [node EXCEPT ![p].c = "black"]
                    h2 == [h1 EXCEPT ![node[p].parent].c = "red"]
                    u == uncle(h2, x)
                IN IF u = NIL THEN Panic(t)
                   ELSE St([h2 EXCEPT ![u].c = "black"], root, count,
                           [r EXCEPT !.pc = "mi_0", !.mstk = Append(r.mstk, x),
                                     !.x = node[p].parent])
      [] r.pc = "mi_undo" ->
           LET n == r.mstk[Len(r.mstk)]
               rest == SubSeq(r.mstk, 1, Len(r.mstk) - 1)
               p == node[n].parent
           IN
           IF p = NIL THEN Panic(t)
           ELSE IF node[p].parent = NIL THEN Panic(t)
           ELSE LET h1 == [node EXCEPT ![p].c = "red"]
                    h2 == [h1 EXCEPT ![node[p].parent].c = "black"]
                    u == uncle(h2, n)
                IN IF u = NIL THEN Panic(t)
                   ELSE St([h2 EXCEPT ![u].c = "red"], root, count,
                           [r EXCEPT !.mstk = rest,
                                     !.pc = IF rest = <<>> THEN "ins_rollback" ELSE "mi_undo"])
      [] r.pc = "mi_rot1" ->
           LET p == node[x].parent IN
           IF p = NIL THEN Panic(t)
           ELSE IF dir(node, x) # dir(node, p)
           THEN IF dir(node, x) = "left"
                THEN LET h == rotateRight(node, root, p) IN
                     St(h.node, h.root, count, [r EXCEPT !.pc = "mi_rot2", !.br = "left"])
                ELSE LET h == rotateLeft(node, root, p) IN
                     St(h.node, h.root, count, [r EXCEPT !.pc = "mi_rot2", !.br = "right"])
           ELSE IF dir(node, x) = "left"
                THEN LET h == rotateRight(node, root, node[p].parent) IN
                     St(h.node, h.root, count, [r EXCEPT !.pc = "mi_col_s"])
                ELSE LET h == rotateLeft(node, root, node[p].parent) IN
                     St(h.node, h.root, count, [r EXCEPT !.pc = "mi_col_s"])
      [] r.pc = "mi_rot2" ->
           LET h == IF r.br = "left" THEN rotateLeft(node, root, node[x].parent)
                    ELSE rotateRight(node, root, node[x].parent)
           IN St(h.node, h.root, count, [r EXCEPT !.pc = "mi_col_b"])
      [] r.pc = "mi_col_b" ->
           LET ch == IF r.br = "left" THEN node[x].left ELSE node[x].right IN
           IF ch = NIL THEN Panic(t)
           ELSE St([node EXCEPT ![ch].c = "red", ![x].c = "black"], root, count, MiTrue(r))
      [] r.pc = "mi_col_s" ->
           LET p == node[x].parent IN
           IF p = NIL THEN Panic(t)
           ELSE LET sb == sibling(node, x)
                IN IF sb = NIL THEN Panic(t)
                   ELSE St(RecolorAfterRotate(node, p, sb), root, count, MiTrue(r))

maintainAfterInsertPcs == {"mi_0", "mi_recolor", "mi_undo", "mi_rot1", "mi_rot2",
                           "mi_col_b", "mi_col_s"}

\* ---------------------------------------------------------------- insert
\* insert linking the new node on the other side
SetChildOtherSide(nd, n, key, v) ==
    IF nd[n].key > key THEN [nd EXCEPT ![n].right = v] ELSE [nd EXCEPT ![n].left = v]

\* `if n.key > key { n.left = v } else { n.right = v }`
SetChild(nd, n, key, v) ==
    IF nd[n].key > key THEN [nd EXCEPT ![n].left = v] ELSE [nd EXCEPT ![n].right = v]

\* insert without the update of the value of a key the tree holds
SetValueSkipped(nd, n, v) == nd

\* `n.value = value`
SetValue(nd, n, v) == [nd EXCEPT ![n].value = v]

insert(t) ==
    LET r == th[t]
        n == r.n
    IN
    CASE r.pc = "ins_lock" -> lock(t, r, n, "ins_hoh", "unwind")
      [] r.pc = "ins_hoh" ->
           \* defer n.unlock(); if n.parent != nil { n.parent.unlock() }
           St(unlock(node, node[n].parent), root, count,
              [r EXCEPT !.pc = "ins_cmp", !.lk = NIL,
                        !.defers = Append(r.defers, Defer("unlock", n))])
      [] r.pc = "ins_cmp" ->
           IF node[n].key = r.key
           THEN St(SetValue(node, n, r.val), root, count,
                   [r EXCEPT !.pc = "unwind", !.isNew = FALSE, !.ok = TRUE])
           ELSE IF node[n].key > r.key /\ node[n].left # NIL
           THEN Same(t, [r EXCEPT !.pc = "ins_lock", !.n = node[n].left])
           ELSE IF node[n].key < r.key /\ node[n].right # NIL
           THEN Same(t, [r EXCEPT !.pc = "ins_lock", !.n = node[n].right])
           ELSE Same(t, [r EXCEPT !.pc = "ins_link"])
      [] r.pc = "ins_link" ->
           LET a == Alloc(node)
               h1 == [node EXCEPT ![a] = NewNode(r.key, r.val, n)]
               h2 == SetChild(h1, n, r.key, a)
           IN IF isRed(h2, n)
              THEN St(h2, root, count, [r EXCEPT !.pc = "ins_lockins", !.ins = a])
              ELSE St(h2, root, count, [r EXCEPT !.pc = "unwind", !.isNew = TRUE, !.ok = TRUE])
      [] r.pc = "ins_lockins" -> lock(t, r, r.ins, "ins_unl", "ins_unl")
      [] r.pc = "ins_unl" ->
           \* defer insert.unlock(); n.unlock(); insert.lockInsert(l)
           St(unlock(node, n), root, count,
              [r EXCEPT !.pc = "li_0", !.lx = r.ins, !.likont = "ins", !.lk = NIL,
                        !.defers = Append(r.defers, Defer("unlock", r.ins))])
      [] r.pc = "ins_rollback" ->
           St(SetChild(node, n, r.key, NIL), root, count,
              [r EXCEPT !.pc = "unwind", !.isNew = TRUE, !.ok = FALSE])

insertPcs == {"ins_lock", "ins_hoh", "ins_cmp", "ins_link", "ins_lockins", "ins_unl",
              "ins_rollback"}

\* Insert: the empty-tree case and the retry loop
Insert(t) ==
    LET r == th[t] IN
    CASE r.pc = "I_root" ->
           Same(t, [r EXCEPT !.pc = IF root = NIL THEN "I_newroot" ELSE "I_call"])
      [] r.pc = "I_newroot" ->
           LET a == Alloc(node) IN
           St([node EXCEPT ![a] = NewNode(r.key, r.val, NIL)], a, count,
              [r EXCEPT !.pc = "ret"])
      [] r.pc = "I_call" ->
           \* t.insert(t.root, key, value, &l)
           Same(t, [r EXCEPT !.pc = "ins_lock", !.n = root])
      [] r.pc = "I_after" ->
           IF r.ok
           THEN St(node, root, IF r.isNew THEN count + 1 ELSE count,
                   [r EXCEPT !.pc = "ret"])
           ELSE Same(t, [r EXCEPT !.pc = "I_call"])

InsertPcs == {"I_root", "I_newroot", "I_call", "I_after"}

\* ------------------------------------------------------------------- get
get(t) ==
    LET r == th[t]
        n == r.n
    IN
    CASE r.pc = "get_chk" ->
           IF n = NIL THEN Same(t, [r EXCEPT !.pc = "unwind", !.res = None, !.ok = TRUE])
           ELSE IF node[n].flag THEN Same(t, [r EXCEPT !.pc = "unwind", !.res = None, !.ok = FALSE])
           ELSE Same(t, [r EXCEPT !.pc = "get_inc"])
      [] r.pc = "get_inc" ->
           St([node EXCEPT ![n].hpflag = @ + 1], root, count,
              [r EXCEPT !.pc = "get_cmp", !.defers = Append(r.defers, Defer("hp", n))])
      [] r.pc = "get_cmp" ->
           IF r.key = node[n].key
           THEN Same(t, [r EXCEPT !.pc = "unwind", !.res = node[n].value, !.ok = TRUE])
           ELSE IF r.key < node[n].key
           THEN Same(t, [r EXCEPT !.pc = "get_chk", !.n = node[n].left])
           ELSE Same(t, [r EXCEPT !.pc = "get_chk", !.n = node[n].right])

getPcs == {"get_chk", "get_inc", "get_cmp"}

\* Get: the retry loop
Get(t) ==
    LET r == th[t] IN
    CASE r.pc = "G_call" -> Same(t, [r EXCEPT !.pc = "get_chk", !.n = root])
      [] r.pc = "G_after" ->
           Same(t, [r EXCEPT !.pc = IF r.ok THEN "ret" ELSE "G_call"])

GetPcs == {"G_call", "G_after"}

\* ------------------------------------------------------------ lockDelete
\* lockDelete succeeded: defer l.unlockArea(); n.getMarker(m, false)
LdTrue(r) ==
    [r EXCEPT !.pc = "gm_0", !.lk = NIL, !.defers = Append(r.defers, Defer("area", NIL))]

\* l.unlockArea(); return false: delete returns (nil, false)
LdFail(t, r) ==
    St(unlockArea(node, r.l), root, count,
       [r EXCEPT !.pc = "unwind", !.l = <<>>, !.lk = NIL, !.ok = FALSE])

LdSr(t, r) ==
    LET sb == sibling(node, r.n) IN
    IF sb = NIL THEN Panic(t)
    ELSE IF node[sb].right # NIL THEN lock(t, r, node[sb].right, "ld_sr2", "ld_fail")
    ELSE Same(t, LdTrue(r))

LdSl(t, r) ==
    LET sb == sibling(node, r.n) IN
    IF sb = NIL THEN Panic(t)
    ELSE IF node[sb].left # NIL THEN lock(t, r, node[sb].left, "ld_sl2", "ld_fail")
    ELSE LdSr(t, r)

LdSib(t, r) ==
    LET sb == sibling(node, r.n) IN
    IF sb # NIL THEN lock(t, r, sb, "ld_sib2", "ld_fail")
    ELSE Same(t, LdTrue(r))

\* `if ok := n.islock(); ok { return false }`
LdSelfLocked(nd, n) == nd[n].flag

lockDelete(t) ==
    LET r == th[t]
        n == r.n
    IN
    CASE r.pc = "ld_0" ->
           IF LdSelfLocked(node, n)
           THEN Same(t, [r EXCEPT !.pc = "unwind", !.ok = FALSE])
           ELSE LET r1 == [r EXCEPT !.l = Append(r.l, n)] IN
                IF node[n].parent = NIL THEN Same(t, LdTrue(r1))
                ELSE Same(t, [r1 EXCEPT !.pc = "ld_parent"])
      [] r.pc = "ld_parent" ->
           IF node[n].parent = NIL THEN Panic(t)
           ELSE IF node[node[n].parent].flag THEN LdFail(t, r)
           ELSE LdSib(t, [r EXCEPT !.l = Append(r.l, node[n].parent)])
      [] r.pc = "ld_sib2" -> LdSl(t, LiAppend(r))
      [] r.pc = "ld_sl2" -> LdSr(t, LiAppend(r))
      [] r.pc = "ld_sr2" -> Same(t, LdTrue(LiAppend(r)))
      [] r.pc = "ld_fail" -> LdFail(t, r)

lockDeletePcs == {"ld_0", "ld_parent", "ld_sib2", "ld_sl2", "ld_sr2", "ld_fail"}

\* ------------------------------------------------------------- getMarker
\* The node whose flag and marker getMarker is spinning on.
GmTarget(r) ==
    IF r.pc \in {"gm_flag", "gm_mark", "gm_rel"} THEN r.d
    ELSE node[r.m[Len(r.m)]].parent

\* getMarker(m, false): the loop `for i := 0; i < 4 && d != nil; i++`
GmLoop(r) ==
    IF r.i < MarkerDepth /\ r.d # NIL THEN [r EXCEPT !.pc = "gm_flag"]
    ELSE [r EXCEPT !.pc = "del_body", !.d = NIL, !.i = 0,
                   !.defers = Append(r.defers, Defer("marker", NIL))]

\* getMarker(m, true) returns into maintainAfterDelete, which goes on with
\* maintainAfterDelete(n.parent, l, m)
GuReturn(r) == [r EXCEPT !.pc = "md_0", !.x = node[r.x].parent]

getMarker(t) ==
    LET r == th[t]
        n == r.n
    IN
    CASE r.pc = "gm_0" ->
           IF node[n].parent = NIL
           THEN Same(t, GmLoop([r EXCEPT !.d = NIL, !.i = 0]))
           ELSE Same(t, GmLoop([r EXCEPT !.d = node[node[n].parent].parent, !.i = 0]))
      [] r.pc = "gm_flag" ->
           St([node EXCEPT ![r.d].flag = TRUE], root, count, [r EXCEPT !.pc = "gm_mark"])
      [] r.pc = "gm_mark" ->
           St([node EXCEPT ![r.d].marker = TRUE], root, count, [r EXCEPT !.pc = "gm_rel"])
      [] r.pc = "gm_rel" ->
           St([node EXCEPT ![r.d].flag = FALSE], root, count,
              GmLoop([r EXCEPT !.m = Append(r.m, r.d), !.d = node[r.d].parent, !.i = r.i + 1]))
      [] r.pc = "gu_0" ->
           LET rc == node[r.x].parent IN
           IF rc = NIL THEN Panic(t)
           ELSE IF node[rc].parent = NIL THEN Same(t, GuReturn(r))
           ELSE IF Len(r.m) = 0 THEN Same(t, GuReturn(r))
           ELSE IF node[r.m[Len(r.m)]].parent = NIL THEN Same(t, GuReturn(r))
           ELSE Same(t, [r EXCEPT !.pc = "gu_flag"])
      [] r.pc = "gu_flag" ->
           IF GmTarget(r) = NIL THEN Panic(t)
           ELSE St([node EXCEPT ![GmTarget(r)].flag = TRUE], root, count,
                   [r EXCEPT !.pc = "gu_mark"])
      [] r.pc = "gu_mark" ->
           IF GmTarget(r) = NIL THEN Panic(t)
           ELSE St([node EXCEPT ![GmTarget(r)].marker = TRUE], root, count,
                   [r EXCEPT !.pc = "gu_rel"])
      [] r.pc = "gu_rel" ->
           IF GmTarget(r) = NIL THEN Panic(t)
           ELSE St([node EXCEPT ![GmTarget(r)].flag = FALSE], root, count,
                   GuReturn([r EXCEPT !.m = Append(r.m, GmTarget(r))]))

getMarkerPcs == {"gm_0", "gm_flag", "gm_mark", "gm_rel", "gu_0", "gu_flag", "gu_mark", "gu_rel"}

\* The spin loops `for !x.flag.CompareAndSwap(false, true) { Sleep }` and
\* `for !x.marker.CompareAndSwap(false, true) { Sleep }` leave only when the
\* CAS succeeds.
GmSpinning(t) ==
    LET r == th[t] IN
    \/ r.pc \in {"gm_flag", "gu_flag"} /\ GmTarget(r) # NIL /\ node[GmTarget(r)].flag
    \/ r.pc \in {"gm_mark", "gu_mark"} /\ GmTarget(r) # NIL /\ node[GmTarget(r)].marker

\* --------------------------------------------------- maintainAfterDelete
\* maintainAfterDelete returns (every frame returns true): delete goes on
\* with unlinking n
MdReturn(r) == [r EXCEPT !.pc = "del_unlink", !.x = NIL, !.s = NIL]

\* maintainAfterDelete without its last case
Md3Skipped(t, r) == Same(t, MdReturn(r))

Md3(t, r) ==
    LET x == r.x
        sb == sibling(node, x)
    IN
    IF sb = NIL THEN Panic(t)
    ELSE IF (dir(node, x) = "left" /\ isRed(node, node[sb].right))
              \/ (dir(node, x) = "right" /\ isRed(node, node[sb].left))
    THEN LET h == IF dir(node, x) = "left" THEN rotateLeft(node, root, node[x].parent)
                  ELSE rotateRight(node, root, node[x].parent)
         IN St(h.node, h.root, count, [r EXCEPT !.pc = "md_3b"])
    ELSE Same(t, MdReturn(r))

Md2(t, r) ==
    LET x == r.x
        sb == sibling(node, x)
    IN
    IF sb = NIL THEN Panic(t)
    ELSE IF (dir(node, x) = "left" /\ isRed(node, node[sb].left) /\ isBlack(node, node[sb].right))
              \/ (dir(node, x) = "right" /\ isRed(node, node[sb].right) /\ isBlack(node, node[sb].left))
    THEN LET h == IF dir(node, x) = "left" THEN rotateRight(node, root, sb)
                  ELSE rotateLeft(node, root, sb)
         IN St(h.node, h.root, count, [r EXCEPT !.pc = "md_2b"])
    ELSE Md3(t, r)

Md1(t, r) ==
    LET x == r.x
        p == node[x].parent
        sb == sibling(node, x)
    IN
    IF sb = NIL THEN Panic(t)
    ELSE IF isBlack(node, node[sb].left) /\ isBlack(node, node[sb].right) /\ isRed(node, p)
    THEN St([node EXCEPT ![sb].c = "red", ![p].c = "black"], root, count, MdReturn(r))
    ELSE IF isBlack(node, node[sb].left) /\ isBlack(node, node[sb].right)
    THEN IF p = NIL THEN Panic(t)
         ELSE IF node[p].c = "black"
         THEN St([node EXCEPT ![sb].c = "red"], root, count, [r EXCEPT !.pc = "gu_0"])
         ELSE Md2(t, r)
    ELSE Md2(t, r)

maintainAfterDelete(t) ==
    LET r == th[t]
        x == r.x
    IN
    CASE r.pc = "md_0" ->
           IF x = NIL THEN Panic(t)
           ELSE IF node[x].parent = NIL THEN Same(t, MdReturn(r))
           ELSE IF isRed(node, sibling(node, x))
           THEN LET h == IF dir(node, x) = "left" THEN rotateLeft(node, root, node[x].parent)
                         ELSE rotateRight(node, root, node[x].parent)
                IN St(h.node, h.root, count, [r EXCEPT !.pc = "md_0b", !.s = sibling(node, x)])
           ELSE Md1(t, r)
      [] r.pc = "md_0b" ->
           IF node[x].parent = NIL THEN Panic(t)
           ELSE St([node EXCEPT ![r.s].c = "black", ![node[x].parent].c = "red"], root, count,
                   [r EXCEPT !.pc = "md_1", !.s = NIL])
      [] r.pc = "md_1" -> Md1(t, r)
      [] r.pc = "md_2b" ->
           LET sb == sibling(node, x) IN
           IF sb = NIL THEN Panic(t)
           ELSE LET ch == IF dir(node, x) = "left" THEN node[sb].right ELSE node[sb].left IN
                IF ch = NIL THEN Panic(t)
                ELSE St([node EXCEPT ![ch].c = "red", ![sb].c = "black"], root, count,
                        [r EXCEPT !.pc = "md_3"])
      [] r.pc = "md_3" -> Md3(t, r)
      [] r.pc = "md_3b" ->
           LET p == node[x].parent IN
           IF p = NIL THEN Panic(t)
           ELSE IF node[p].parent = NIL THEN Panic(t)
           ELSE LET g == node[p].parent
                    h1 == [node EXCEPT ![g].c = node[p].c, ![p].c = node[g].c]
                    ps == sibling(h1, p)
                IN IF ps = NIL THEN Panic(t)
                   ELSE St([h1 EXCEPT ![ps].c = "black"], root, count, MdReturn(r))

maintainAfterDeletePcs == {"md_0", "md_0b", "md_1", "md_2b", "md_3", "md_3b"}

\* ---------------------------------------------------------------- delete
\* n.swap(d)
swap(nd, n, d) ==
    [nd EXCEPT ![n].key = nd[d].key, ![d].key = nd[n].key,
               ![n].value = nd[d].value, ![d].value = nd[n].value]

\* `t.count--; return &v, true`
DelDone(r) == [r EXCEPT !.pc = "unwind", !.res = r.v, !.ok = TRUE, !.rep = NIL, !.s = NIL]

delete(t) ==
    LET r == th[t]
        n == r.n
    IN
    CASE r.pc = "del_lock" ->
           IF n = NIL THEN Same(t, [r EXCEPT !.pc = "unwind", !.res = None, !.ok = TRUE])
           ELSE lock(t, r, n, "del_hoh", "unwind")
      [] r.pc = "del_hoh" ->
           \* defer n.unlock(); n.parent.parent.unlock() when there is one
           LET p == node[n].parent
               g == IF p = NIL THEN NIL ELSE node[p].parent
           IN St(unlock(node, g), root, count,
                 [r EXCEPT !.pc = "del_cmp", !.lk = NIL,
                           !.defers = Append(r.defers, Defer("unlock", n))])
      [] r.pc = "del_cmp" ->
           IF r.key = node[n].key THEN Same(t, [r EXCEPT !.pc = "ld_0"])
           ELSE IF r.key < node[n].key
           THEN Same(t, [r EXCEPT !.pc = "del_lock", !.n = node[n].left])
           ELSE Same(t, [r EXCEPT !.pc = "del_lock", !.n = node[n].right])
      [] r.pc = "del_body" ->
           IF node[n].left # NIL /\ node[n].right # NIL
           THEN Same(t, [r EXCEPT !.pc = "del_succ", !.v = node[n].value, !.s = node[n].right])
           ELSE Same(t, [r EXCEPT !.pc = "del_leafchk", !.v = node[n].value])
      [] r.pc = "del_succ" ->
           IF node[r.s].left # NIL
           THEN Same(t, [r EXCEPT !.s = node[r.s].left])
           ELSE St(swap(node, n, r.s), root, count,
                   [r EXCEPT !.pc = "del_leafchk", !.n = r.s, !.s = NIL])
      [] r.pc = "del_leafchk" ->
           IF node[n].left = NIL /\ node[n].right = NIL
           THEN IF node[n].c = "black"
                THEN Same(t, [r EXCEPT !.pc = "md_0", !.x = n])
                ELSE Same(t, [r EXCEPT !.pc = "del_unlink"])
           ELSE Same(t, [r EXCEPT !.pc = "del_rep"])
      [] r.pc = "del_unlink" ->
           LET p == node[n].parent IN
           IF p = NIL THEN Panic(t)
           ELSE IF dir(node, n) = "left"
           THEN St([node EXCEPT ![p].left = NIL], root, count - 1, DelDone(r))
           ELSE St([node EXCEPT ![p].right = NIL], root, count - 1, DelDone(r))
      [] r.pc = "del_rep" ->
           Same(t, [r EXCEPT !.pc = "del_rep2",
                             !.rep = IF node[n].left = NIL THEN node[n].right ELSE node[n].left])
      [] r.pc = "del_rep2" ->
           LET p == node[n].parent
               d0 == dir(node, n)
               h1 == CASE d0 = "root" -> node
                       [] d0 = "left" -> [node EXCEPT ![p].left = r.rep]
                       [] OTHER -> [node EXCEPT ![p].right = r.rep]
               rt == IF d0 = "root" THEN r.rep ELSE root
           IN IF r.rep = NIL
              THEN [node |-> h1, root |-> rt, count |-> count, r |-> r, panic |-> TRUE]
              ELSE St([h1 EXCEPT ![r.rep].parent = p, ![r.rep].c = "black"], rt, count - 1,
                      DelDone(r))

deletePcs == {"del_lock", "del_hoh", "del_cmp", "del_body", "del_succ", "del_leafchk",
              "del_unlink", "del_rep", "del_rep2"}

\* Delete: the single-node case and the retry loop
\* The retry of the earlier Delete: `b, ok = t.root.get(key)`.
DeleteAgainGet == "G_call"

\* The retry of Delete: `b, ok = t.delete(t.root, key, &l, &m)`.
DeleteAgain == "D_call"

Delete(t) ==
    LET r == th[t] IN
    CASE r.pc = "D_check" ->
           IF count = 1
           THEN IF root = NIL THEN Panic(t)
                ELSE Same(t, [r EXCEPT !.pc = IF node[root].key = r.key THEN "D_case0"
                                              ELSE "D_call"])
           ELSE Same(t, [r EXCEPT !.pc = "D_call"])
      [] r.pc = "D_case0" ->
           IF root = NIL THEN Panic(t)
           ELSE St(node, NIL, count - 1, [r EXCEPT !.pc = "ret", !.res = node[root].value])
      [] r.pc = "D_call" ->
           \* t.delete(t.root, key, &l, &m)
           Same(t, [r EXCEPT !.pc = "del_lock", !.n = root])
      [] r.pc = "D_after" ->
           Same(t, [r EXCEPT !.pc = IF r.ok THEN "ret" ELSE DeleteAgain])

DeletePcs == {"D_check", "D_case0", "D_call", "D_after"}

\* ------------------------------------------------------- deferred calls
\* The function returns: its deferred calls run, last one first, then those
\* of its callers.  After the last one the call is back in its retry loop.
After(op) ==
    CASE op = "Insert" -> "I_after"
      [] op = "Delete" -> "D_after"
      [] OTHER -> "G_after"

RunDefer(nd, r, e) ==
    CASE e.k = "unlock" -> unlock(nd, e.n)
      [] e.k = "area" -> unlockArea(nd, r.l)
      [] e.k = "marker" -> unlockMarker(nd, r.m)
      [] OTHER -> [nd EXCEPT ![e.n].hpflag = @ - 1]

Unwind(t) ==
    LET r == th[t]
        k == Len(r.defers)
        h == IF k = 0 THEN node ELSE RunDefer(node, r, r.defers[k])
        back == [Fresh(r, After(r.op)) EXCEPT !.isNew = r.isNew, !.ok = r.ok]
    IN IF k <= 1
       THEN St(h, root, count, back)
       ELSE St(h, root, count,
               [r EXCEPT !.defers = SubSeq(r.defers, 1, k - 1),
                         !.l = IF r.defers[k].k = "area" THEN <<>> ELSE r.l,
                         !.m = IF r.defers[k].k = "marker" THEN <<>> ELSE r.m])

\* ------------------------------------------------- what the tree maps to
\* What a call of get (and so of Get) returns when no goroutine is inside
\* the tree: no flag is set, so no attempt fails.  Fuel bounds the descent.
RECURSIVE GetFrom(_, _, _, _)
GetFrom(nd, n, key, fuel) ==
    IF n = NIL \/ fuel = 0 THEN None
    ELSE IF key = nd[n].key THEN nd[n].value
    ELSE IF key < nd[n].key THEN GetFrom(nd, nd[n].left, key, fuel - 1)
    ELSE GetFrom(nd, nd[n].right, key, fuel - 1)

Lookup(nd, rt, key) == GetFrom(nd, rt, key, MaxNodes + 1)

\* The getter of the concurrent client remembers, for the Get it is running,
\* what the tree mapped the key to at every moment since the call.
Observed(h, nd, rt, thr) ==
    [h EXCEPT !.obs = [t \in Threads |->
        IF role[t] = "get" /\ thr[t].op = "Get" /\ thr[t].pc # "idle"
        THEN @[t] \cup {Lookup(nd, rt, thr[t].key)}
        ELSE {}]]

\* ------------------------------------------------ who holds which flag
\* The nodes whose flag the next step of goroutine t takes: lock() returns
\* true after hpflag.Load(), getMarker leaves its CAS loop.
Acquired(t) ==
    LET r == th[t] IN
    CASE r.pc = "lock_hp" -> IF node[r.lk].hpflag > 0 THEN {} ELSE {r.lk}
      [] r.pc \in {"gm_flag", "gu_flag"} -> {GmTarget(r)} \ {NIL}
      [] OTHER -> {}

\* The nodes the next step of goroutine t calls unlock() on, one by one or
\* through unlockArea(), or whose flag getMarker gives back.
Released(t) ==
    LET r == th[t]
        n == r.n
    IN
    CASE r.pc = "ins_hoh" -> {node[n].parent} \ {NIL}
      [] r.pc = "ins_unl" -> {n}
      [] r.pc = "del_hoh" ->
           IF node[n].parent = NIL THEN {} ELSE {node[node[n].parent].parent} \ {NIL}
      [] r.pc = "unwind" ->
           IF r.defers = <<>> THEN {}
           ELSE LET e == r.defers[Len(r.defers)] IN
                CASE e.k = "unlock" -> {e.n} \ {NIL}
                  [] e.k = "area" -> Range(r.l)
                  [] OTHER -> {}
      [] r.pc \in {"li_fail", "ld_fail"} -> Range(r.l)
      [] r.pc \in {"li_parent2", "li_sibling2", "li_gp2", "li_uncle2"} ->
           IF LiMarked(r) THEN Range(r.l) ELSE {}
      [] r.pc = "ld_parent" ->
           IF node[n].parent # NIL /\ node[node[n].parent].flag THEN Range(r.l) ELSE {}
      [] r.pc \in {"gm_rel", "gu_rel"} -> {GmTarget(r)} \ {NIL}
      [] OTHER -> {}

\* The node on which the next step of goroutine t wins the marker CAS of
\* getMarker.
MarkerSet(t) ==
    LET r == th[t] IN
    IF r.pc \in {"gm_mark", "gu_mark"} THEN {GmTarget(r)} \ {NIL} ELSE {}

\* 1 when the step of goroutine t that leaves S behind is the `t.count--`
\* of Delete or delete.
Decrements(t, S) == IF th[t].op = "Delete" /\ S.count = count - 1 THEN 1 ELSE 0

\* The step of a Delete that leaves S behind is its removal: with the
\* `t.count--` either the key of the call stops being found from the root,
\* or the node that holds the key is unlinked from its parent.
Removes(t, S) ==
    LET r == th[t]
        n == IF r.pc = "D_case0" THEN root ELSE r.n
        p == IF n = NIL THEN NIL ELSE node[n].parent
    IN  /\ r.op = "Delete"
        /\ S.count = count - 1
        /\ \/ /\ Lookup(node, root, r.key) # None
              /\ Lookup(S.node, S.root, r.key) = None
           \/ /\ n # NIL
              /\ node[n].key = r.key
              /\ S.root # n
              /\ p # NIL => (S.node[p].left # n /\ S.node[p].right # n)

\* The next step of goroutine t is the `!ok` of Delete's retry loop: the
\* attempt reported a conflict and the call goes round again.
Retries(t) == th[t].op = "Delete" /\ th[t].pc = "D_after" /\ ~th[t].ok

\* Another goroutine is in a call of its own.
Beside(t) == \E u \in Threads \ {t} : th[u].op # "none"

\* ------------------------------------------------------------- the steps
\* Pcs at which a goroutine has dropped its pointers into the heap.
CollectPcs == {"I_after", "D_after", "G_after", "ret", "idle"}

\* insert and delete call themselves at every level of the descent: on a
\* heap whose links form a cycle the descent has no end, and the Go runtime
\* ends the process when the goroutine's stack is used up.
StackOverflow(r) == Len(r.defers) > MaxStack

Do(t, S) ==
    /\ panicked' = (S.panic \/ StackOverflow(S.r))
    /\ th' = [th EXCEPT ![t] = [S.r EXCEPT !.held = (th[t].held \ Released(t)) \cup Acquired(t),
                                         !.mk = th[t].mk \cup MarkerSet(t),
                                         !.dec = th[t].dec + Decrements(t, S),
                                         !.again = th[t].again \/ (Retries(t) /\ Beside(t)),
                                         !.gone = th[t].gone \/ Removes(t, S)]]
    /\ root' = S.root
    /\ count' = S.count
    /\ node' = IF S.r.pc \in CollectPcs THEN Collect(S.node, S.root, th') ELSE S.node
    /\ hist' = Observed(hist, S.node, S.root, th')
    /\ UNCHANGED role

At(t, pcs) == ~panicked /\ th[t].pc \in pcs

InsertStep(t) ==
    /\ At(t, InsertPcs)
    /\ th[t].pc = "I_newroot" => HasFree(node)
    /\ Do(t, Insert(t))

insertStep(t) ==
    /\ At(t, insertPcs)
    /\ th[t].pc = "ins_link" => HasFree(node)
    /\ Do(t, insert(t))

lockInsertStep(t) == At(t, lockInsertPcs) /\ Do(t, lockInsert(t))

maintainAfterInsertStep(t) == At(t, maintainAfterInsertPcs) /\ Do(t, maintainAfterInsert(t))

lockStep(t) == At(t, {"lock_hp"}) /\ Do(t, LockHp(t))

GetStep(t) == At(t, GetPcs) /\ Do(t, Get(t))

getStep(t) == At(t, getPcs) /\ Do(t, get(t))

UnwindStep(t) == At(t, {"unwind"}) /\ Do(t, Unwind(t))

DeleteStep(t) == At(t, DeletePcs) /\ Do(t, Delete(t))

deleteStep(t) == At(t, deletePcs) /\ Do(t, delete(t))

lockDeleteStep(t) == At(t, lockDeletePcs) /\ Do(t, lockDelete(t))

getMarkerStep(t) == At(t, getMarkerPcs) /\ ~GmSpinning(t) /\ Do(t, getMarker(t))

maintainAfterDeleteStep(t) == At(t, maintainAfterDeletePcs) /\ Do(t, maintainAfterDelete(t))

\* ------------------------------------------- the tree between two calls
\* check that counts every node as a black one
countBlackAlways(nd, n, bc) == bc + 1

\* `if n.isBlack() { bc++ }`
countBlack(nd, n, bc) == IF isBlack(nd, n) THEN bc + 1 ELSE bc

\* check(n, bc): the black count of the subtree, or the error
RECURSIVE check(_, _, _, _)
check(nd, n, bc, fuel) ==
    IF n = NIL THEN [bc |-> bc, err |-> "nil"]
    ELSE IF nd[n].flag THEN [bc |-> bc, err |-> "nil"]
    ELSE IF fuel = 0 THEN [bc |-> 0, err |-> "endless"]
    ELSE IF isRed(nd, n) /\ (isRed(nd, nd[n].left) \/ isRed(nd, nd[n].right))
    THEN [bc |-> 0, err |-> "ErrParentChildDoublRed"]
    ELSE LET b == countBlack(nd, n, bc)
             lc == check(nd, nd[n].left, b, fuel - 1)
             rc == check(nd, nd[n].right, b, fuel - 1)
         IN IF lc.err # "nil" THEN [bc |-> 0, err |-> lc.err]
            ELSE IF rc.err # "nil" THEN [bc |-> 0, err |-> rc.err]
            ELSE IF lc.bc # rc.bc THEN [bc |-> 0, err |-> "ErrBlackHeightMisMatch"]
            ELSE [bc |-> lc.bc, err |-> "nil"]

\* Check()
Check(nd, rt) == IF rt = NIL THEN "nil" ELSE check(nd, rt, 0, MaxNodes + 1).err

\* The nodes of the tree: what the child links lead to from the root.
RECURSIVE Down(_, _)
Down(nd, S) ==
    LET T == (S \cup {nd[a].left : a \in S} \cup {nd[a].right : a \in S}) \ {NIL}
    IN IF T = S THEN S ELSE Down(nd, T)

TreeNodes(nd, rt) == Down(nd, {rt} \ {NIL})

\* The keys in the order an in-order walk meets them.
RECURSIVE InOrder(_, _, _)
InOrder(nd, n, fuel) ==
    IF n = NIL \/ fuel = 0 THEN <<>>
    ELSE InOrder(nd, nd[n].left, fuel - 1) \o <<nd[n].key>> \o InOrder(nd, nd[n].right, fuel - 1)

\* The tree as the client sees it at the moment of a call.
Snap(nd, rt, cnt) ==
    [map |-> [k \in Keys |-> Lookup(nd, rt, k)], node |-> nd, root |-> rt, count |-> cnt,
     size |-> Cardinality(TreeNodes(nd, rt))]

\* ------------------------------------------------------------ the client
\* ops: calls made; pre: the tree when the running call was made; last: the
\* call that returned last; sent, insd, deld: keys whose Insert was called,
\* has returned, whose Delete has returned; took: keys whose Delete was
\* called; obs: what the tree mapped the key of a running Get to.
H0 ==
    [ops |-> 0, pre |-> Snap(node, root, count), last |-> [op |-> "New", key |-> 0, val |-> 0],
     sent |-> {}, insd |-> {}, deld |-> {}, took |-> {},
     obs |-> [t \in Threads |-> {}]]

Call(t, op, k, v, pc, h) ==
    /\ th' = [th EXCEPT ![t] = [R0 EXCEPT !.pc = pc, !.op = op, !.key = k, !.val = v]]
    /\ hist' = Observed([h EXCEPT !.pre = IF role[t] = "seq" THEN Snap(node, root, count) ELSE @],
                        node, root, th')
    /\ UNCHANGED <<node, root, count, role, panicked>>

CallInsert(t) ==
    /\ At(t, {"idle"})
    /\ role[t] = "seq"
    /\ hist.ops < MaxOps
    /\ \E k \in Keys, v \in Values :
          Call(t, "Insert", k, v, "I_root", [hist EXCEPT !.ops = @ + 1])

CallGet(t) ==
    /\ At(t, {"idle"})
    /\ role[t] = "seq"
    /\ hist.ops < MaxOps
    /\ \E k \in Keys : Call(t, "Get", k, 0, "G_call", [hist EXCEPT !.ops = @ + 1])

CallDelete(t) ==
    /\ At(t, {"idle"})
    /\ role[t] = "seq"
    /\ hist.ops < MaxOps
    /\ \E k \in Keys : Call(t, "Delete", k, 0, "D_check", [hist EXCEPT !.ops = @ + 1])

Return(t) ==
    /\ At(t, {"ret"})
    /\ th' = [th EXCEPT ![t] = R0]
    /\ hist' = [hist EXCEPT
                  !.obs = [@ EXCEPT ![t] = {}],
                  !.last = IF role[t] = "seq"
                           THEN [op |-> th[t].op, key |-> th[t].key, val |-> th[t].val]
                           ELSE @,
                  !.insd = IF role[t] \notin {"seq", "grow"} /\ th[t].op = "Insert"
                           THEN @ \cup {th[t].key} ELSE @,
                  !.deld = IF role[t] \notin {"seq", "grow"} /\ th[t].op = "Delete"
                           THEN @ \cup {th[t].key} ELSE @]
    /\ IF \A u \in Threads : ThreadRefs(th'[u]) = {}
       THEN /\ node' = Compact(node, root)
            /\ root' = Renamed(node, Closure(node, {root} \ {NIL}), root)
       ELSE UNCHANGED <<node, root>>
    /\ UNCHANGED <<count, role, panicked>>

\* NewRBTree(key, value)
NewRBTree(k, v) ==
    /\ node = [a \in Nodes |-> IF a = 1 THEN NewNode(k, v, NIL) ELSE FreeNode]
    /\ root = 1
    /\ count = 1

SeqInit ==
    /\ \E k \in Keys, v \in Values : NewRBTree(k, v)
    /\ th = [t \in Threads |-> R0]
    /\ role = [t \in Threads |-> IF t = 1 THEN "seq" ELSE "off"]
    /\ hist = H0
    /\ panicked = FALSE

SeqNext ==
    \E t \in Threads :
        \/ CallInsert(t)
        \/ CallGet(t)
        \/ CallDelete(t)
        \/ Return(t)
        \/ InsertStep(t)
        \/ insertStep(t)
        \/ lockInsertStep(t)
        \/ maintainAfterInsertStep(t)
        \/ lockStep(t)
        \/ GetStep(t)
        \/ getStep(t)
        \/ DeleteStep(t)
        \/ deleteStep(t)
        \/ lockDeleteStep(t)
        \/ UnwindStep(t)

SeqSpec == SeqInit /\ [][SeqNext]_vars

\* A sequential client that calls Insert and Delete with any key of
\* 1..MaxGrow, as often as it likes: the trees it builds are tall enough for
\* maintainAfterInsert to go up more than one level.
GrowKeys == 1..MaxGrow

GrowInsert(t) ==
    /\ At(t, {"idle"})
    /\ role[t] = "grow"
    /\ \E k \in GrowKeys : Call(t, "Insert", k, 1, "I_root", hist)

GrowDelete(t) ==
    /\ At(t, {"idle"})
    /\ role[t] = "grow"
    /\ \E k \in GrowKeys : Call(t, "Delete", k, 0, "D_check", hist)

GrowInit ==
    /\ \E k \in GrowKeys : NewRBTree(k, 1)
    /\ th = [t \in Threads |-> R0]
    /\ role = [t \in Threads |-> IF t = 1 THEN "grow" ELSE "off"]
    /\ hist = H0
    /\ panicked = FALSE

GrowNext ==
    \E t \in Threads :
        \/ GrowInsert(t)
        \/ GrowDelete(t)
        \/ Return(t)
        \/ InsertStep(t)
        \/ insertStep(t)
        \/ lockInsertStep(t)
        \/ maintainAfterInsertStep(t)
        \/ lockStep(t)
        \/ DeleteStep(t)
        \/ deleteStep(t)
        \/ lockDeleteStep(t)
        \/ UnwindStep(t)

GrowSpec == GrowInit /\ [][GrowNext]_vars

\* Concurrent clients, after TestParaGetInsert and TestParaInsertDel: the
\* tree starts as NewRBTree(0, _); an inserter calls Insert once for every
\* key of 1..MaxPara, in any order; a deleter calls Delete, and a getter Get,
\* with a key whose Insert has returned.
ParaKeys == 1..MaxPara

ParaInsert(t) ==
    /\ At(t, {"idle"})
    /\ role[t] = "ins"
    /\ \E k \in ParaKeys \ hist.sent :
          Call(t, "Insert", k, 1, "I_root", [hist EXCEPT !.sent = @ \cup {k}])

ParaDelete(t) ==
    /\ At(t, {"idle"})
    /\ role[t] = "del"
    /\ \E k \in hist.insd \ hist.took :
          Call(t, "Delete", k, 0, "D_check", [hist EXCEPT !.took = @ \cup {k}])

ParaGet(t) ==
    /\ At(t, {"idle"})
    /\ role[t] = "get"
    /\ \E k \in hist.insd : Call(t, "Get", k, 0, "G_call", hist)

ParaInit(second) ==
    /\ NewRBTree(0, 1)
    /\ th = [t \in Threads |-> R0]
    /\ role = [t \in Threads |-> IF t = 1 THEN "ins" ELSE IF t = 2 THEN second ELSE "off"]
    /\ hist = H0
    /\ panicked = FALSE

\* One inserter and one getter.
GetInsInit == ParaInit("get")

GetInsNext ==
    \E t \in Threads :
        \/ ParaInsert(t)
        \/ ParaGet(t)
        \/ Return(t)
        \/ InsertStep(t)
        \/ insertStep(t)
        \/ lockInsertStep(t)
        \/ maintainAfterInsertStep(t)
        \/ lockStep(t)
        \/ GetStep(t)
        \/ getStep(t)
        \/ UnwindStep(t)

GetInsSpec == GetInsInit /\ [][GetInsNext]_vars

\* One inserter and one deleter.
InsDelInit == ParaInit("del")

InsDelNext ==
    \E t \in Threads :
        \/ ParaInsert(t)
        \/ ParaDelete(t)
        \/ Return(t)
        \/ InsertStep(t)
        \/ insertStep(t)
        \/ lockInsertStep(t)
        \/ maintainAfterInsertStep(t)
        \/ lockStep(t)
        \/ DeleteStep(t)
        \/ deleteStep(t)
        \/ lockDeleteStep(t)
        \/ getMarkerStep(t)
        \/ maintainAfterDeleteStep(t)
        \/ UnwindStep(t)

InsDelSpec == InsDelInit /\ [][InsDelNext]_vars

\* The sequential client under fair scheduling: a goroutine that can take a
\* step takes one.
SeqLive == SeqInit /\ [][SeqNext]_vars /\ WF_vars(SeqNext)

\* A client that inserts and then deletes, after BenchmarkDelete: it calls
\* Insert up to MaxOps times, then Delete once for every key it has put in
\* the tree (the constructor's key included), in any order.
DrainInsert(t) ==
    /\ At(t, {"idle"})
    /\ role[t] = "drain"
    /\ hist.took = {}
    /\ hist.ops < MaxOps
    /\ \E k \in Keys, v \in Values :
          Call(t, "Insert", k, v, "I_root",
               [hist EXCEPT !.ops = @ + 1, !.sent = @ \cup {k}])

DrainDelete(t) ==
    /\ At(t, {"idle"})
    /\ role[t] = "drain"
    /\ \E k \in hist.sent \ hist.took :
          Call(t, "Delete", k, 0, "D_check", [hist EXCEPT !.took = @ \cup {k}])

DrainInit ==
    /\ \E k \in Keys, v \in Values :
          /\ NewRBTree(k, v)
          /\ hist = [H0 EXCEPT !.sent = {k}]
    /\ th = [t \in Threads |-> R0]
    /\ role = [t \in Threads |-> IF t = 1 THEN "drain" ELSE "off"]
    /\ panicked = FALSE

DrainNext ==
    \E t \in Threads :
        \/ DrainInsert(t)
        \/ DrainDelete(t)
        \/ Return(t)
        \/ InsertStep(t)
        \/ insertStep(t)
        \/ lockInsertStep(t)
        \/ maintainAfterInsertStep(t)
        \/ lockStep(t)
        \/ DeleteStep(t)
        \/ deleteStep(t)
        \/ lockDeleteStep(t)
        \/ UnwindStep(t)

\* The draining client under fair scheduling.
DrainLive == DrainInit /\ [][DrainNext]_vars /\ WF_vars(DrainNext)

\* A test harness that calls Check on a tree at rest.  The trees are all
\* shapes over the places 1..MaxShape, every node red or black, no flag
\* set: what Check is there to tell apart.
Places == 1..MaxShape

RECURSIVE Depth(_)
Depth(a) == IF a <= 1 THEN 0 ELSE 1 + Depth(a \div 2)

RECURSIVE Pow2(_)
Pow2(n) == IF n <= 0 THEN 1 ELSE 2 * Pow2(n - 1)

\* The key of the node at place a: keys ascend from left to right.
RECURSIVE PlaceKey(_)
PlaceKey(a) ==
    IF a <= 1 THEN Pow2(Depth(MaxShape))
    ELSE IF a % 2 = 0 THEN PlaceKey(a \div 2) - Pow2(Depth(MaxShape) - Depth(a))
    ELSE PlaceKey(a \div 2) + Pow2(Depth(MaxShape) - Depth(a))

TreeOfShape(shape) ==
    [a \in Nodes |->
        IF a \in Places /\ shape[a] # "free"
        THEN [c |-> shape[a],
              left |-> IF 2 * a \in Places /\ shape[2 * a] # "free" THEN 2 * a ELSE NIL,
              right |-> IF 2 * a + 1 \in Places /\ shape[2 * a + 1] # "free" THEN 2 * a + 1 ELSE NIL,
              parent |-> IF a = 1 THEN NIL ELSE a \div 2,
              key |-> PlaceKey(a), value |-> 1,
              flag |-> FALSE, hpflag |-> 0, marker |-> FALSE]
        ELSE FreeNode]

CheckInit ==
    /\ \E shape \in [Places -> {"free", "red", "black"}] :
          /\ \A a \in Places \ {1} : shape[a] # "free" => shape[a \div 2] # "free"
          /\ node = TreeOfShape(shape)
          /\ root = IF shape[1] = "free" THEN NIL ELSE 1
          /\ count = Cardinality({a \in Places : shape[a] # "free"})
    /\ th = [t \in Threads |-> R0]
    /\ role = [t \in Threads |-> IF t = 1 THEN "check" ELSE "off"]
    /\ hist = H0
    /\ panicked = FALSE

\* err := t.Check(): the tree is only read
CheckCall(t) ==
    /\ At(t, {"idle"})
    /\ role[t] = "check"
    /\ th' = [th EXCEPT ![t] = [R0 EXCEPT !.pc = "ret", !.op = "Check",
                                          !.err = Check(node, root)]]
    /\ UNCHANGED <<node, root, count, role, hist, panicked>>

CheckNext == \E t \in Threads : CheckCall(t)

CheckSpec == CheckInit /\ [][CheckNext]_vars

\* ------------------------------------------------- sequential properties
\* The call of the sequential client has returned.
Returned(t, op) == role[t] \in {"seq", "grow"} /\ ~panicked /\ th[t].pc = "ret" /\ th[t].op = op

\* No goroutine is inside the tree.
Quiescent == ~panicked /\ \A t \in Threads : th[t].pc \in {"idle", "ret"}

NoRedRed(nd, rt) ==
    \A a \in TreeNodes(nd, rt) :
        isRed(nd, a) => ~isRed(nd, nd[a].left) /\ ~isRed(nd, nd[a].right)

\* Black nodes on every path from n down to a nil link, as a set of counts.
RECURSIVE BlackHeights(_, _, _)
BlackHeights(nd, n, fuel) ==
    IF n = NIL \/ fuel = 0 THEN {0}
    ELSE LET b == IF nd[n].c = "black" THEN 1 ELSE 0
         IN {h + b : h \in BlackHeights(nd, nd[n].left, fuel - 1)
                           \cup BlackHeights(nd, nd[n].right, fuel - 1)}

Ascending(q) == \A i \in 1..(Len(q) - 1) : q[i] < q[i + 1]

Keys_InOrder == InOrder(node, root, MaxNodes + 1)

\* C1: a sequential Insert(k, v) returns at its first attempt; when it has
\* returned the tree maps k to v and every other key to what it mapped to
\* before the call (also after the tree was emptied); and a Get returns what
\* the tree maps its key to.
C1_InsertThenGet ==
    \A t \in Threads :
        /\ (role[t] = "seq" /\ th[t].op = "Insert" /\ th[t].pc = "I_after") => th[t].ok
        /\ Returned(t, "Insert") =>
              /\ Lookup(node, root, th[t].key) = th[t].val
              /\ \A k \in Keys \ {th[t].key} : Lookup(node, root, k) = hist.pre.map[k]
        /\ Returned(t, "Get") => th[t].res = hist.pre.map[th[t].key]

C1_Witness ==
    \E t \in Threads :
        /\ Returned(t, "Insert")
        /\ hist.pre.map[th[t].key] = None
        /\ hist.pre.size >= 2
        /\ hist.last.op = "Get" /\ hist.last.key # th[t].key

\* C2: a sequential Delete(k) called while the tree holds k returns; when it
\* has returned its result is the value k was mapped to and the tree holds k
\* no more.
C2_DeleteReturnsPriorValue ==
    /\ [](\A t \in Threads :
             (Returned(t, "Delete") /\ hist.pre.map[th[t].key] # None) =>
                 /\ th[t].res = hist.pre.map[th[t].key]
                 /\ Lookup(node, root, th[t].key) = None)
    /\ \A t \in Threads :
          (role[t] = "seq" /\ th[t].op = "Delete" /\ th[t].pc = "D_check"
             /\ hist.pre.map[th[t].key] # None)
          ~> (th[t].pc = "ret")

\* C3: after every Insert and Delete of a sequential run that has returned,
\* no red node has a red child and every path from the root down to a nil
\* link holds the same number of black nodes; Check returns nil.
C3_RedBlackAfterEveryOp ==
    \A t \in Threads :
        (Returned(t, "Insert") \/ Returned(t, "Delete")) =>
            /\ Check(node, root) = "nil"
            /\ NoRedRed(node, root)
            /\ Cardinality(BlackHeights(node, root, MaxNodes + 1)) = 1

C3_Witness ==
    \E t \in Threads :
        /\ Returned(t, "Insert")
        /\ Cardinality(TreeNodes(node, root)) = MaxGrow
        /\ \E a \in TreeNodes(node, root) :
              isRed(node, a) /\ node[a].left # NIL /\ node[a].right # NIL

\* C4: after every Insert and Delete of a sequential run that has returned,
\* an in-order walk meets every node of the tree once and its keys strictly
\* ascend.
C4_SearchTreeAfterEveryOp ==
    \A t \in Threads :
        (Returned(t, "Insert") \/ Returned(t, "Delete")) =>
            /\ Ascending(Keys_InOrder)
            /\ Len(Keys_InOrder) = Cardinality(TreeNodes(node, root))

C4_Witness ==
    \E t \in Threads :
        /\ Returned(t, "Delete")
        /\ th[t].res = None
        /\ Len(Keys_InOrder) = MaxGrow - 1
        /\ node[root].left # NIL /\ node[root].right # NIL

\* C8: a sequential Delete(k) that has returned left every other key mapped
\* to what it mapped to before the call.
C8_DeleteKeepsOtherKeys ==
    \A t \in Threads :
        Returned(t, "Delete") =>
            \A k \in Keys \ {th[t].key} : Lookup(node, root, k) = hist.pre.map[k]

\* C9: a sequential Delete of a key the tree does not hold (the empty tree
\* included) returns none and leaves the nodes, their keys, values, colors
\* and links, the root and the count as they were, with no flag set.
C9_DeleteAbsentKey ==
    \A t \in Threads :
        (Returned(t, "Delete") /\ hist.pre.map[th[t].key] = None) =>
            /\ th[t].res = None
            /\ node = hist.pre.node
            /\ root = hist.pre.root
            /\ count = hist.pre.count
            /\ \A a \in Nodes : ~node[a].flag

C9_Witness ==
    \E t \in Threads :
        /\ Returned(t, "Delete")
        /\ hist.pre.map[th[t].key] = None
        /\ hist.pre.size >= 3
        /\ th[t].key > node[root].key

\* C10: when Insert(k, v2) returns right after Insert(k, v1), the tree maps k
\* to v2 and holds as many nodes, and the same count, as after the first
\* Insert.
C10_InsertTwice ==
    \A t \in Threads :
        (Returned(t, "Insert") /\ hist.last.op = "Insert" /\ hist.last.key = th[t].key) =>
            /\ Lookup(node, root, th[t].key) = th[t].val
            /\ Cardinality(TreeNodes(node, root)) = hist.pre.size
            /\ count = hist.pre.count

C10_Witness ==
    \E t \in Threads :
        /\ Returned(t, "Insert")
        /\ hist.last.op = "Insert" /\ hist.last.key = th[t].key
        /\ hist.last.val # th[t].val
        /\ hist.pre.size >= 2

\* ------------------------------------------------- concurrent properties
\* What a Get that starts now, with no goroutine inside the tree, comes to:
\* the value of the key, none, or "retry" when a flag that was left set turns
\* every attempt away.
RECURSIVE GetNow(_, _, _, _)
GetNow(nd, n, key, fuel) ==
    IF n = NIL \/ fuel = 0 THEN None
    ELSE IF nd[n].flag THEN -1
    ELSE IF key = nd[n].key THEN nd[n].value
    ELSE IF key < nd[n].key THEN GetNow(nd, nd[n].left, key, fuel - 1)
    ELSE GetNow(nd, nd[n].right, key, fuel - 1)

FinalGet(key) == GetNow(node, root, key, MaxNodes + 1)

\* C5: whenever no goroutine is inside the tree, after any interleaving of
\* the calls of an inserter and a deleter, Check returns nil.
C5_CheckAtQuiescence == Quiescent => Check(node, root) = "nil"

\* C6: whenever no goroutine is inside the tree, after any interleaving of
\* the calls of an inserter and a deleter, a Get finds every key whose Insert
\* has returned and whose Delete was not called, with the value inserted,
\* and finds no key whose Delete has returned or whose Insert was not called.
C6_FinalGetAgrees ==
    Quiescent =>
        \A k \in ParaKeys :
            /\ k \in hist.insd \ hist.took => FinalGet(k) = 1
            /\ k \in hist.deld => FinalGet(k) = None
            /\ k \notin hist.sent => FinalGet(k) = None

\* C7: with an inserter and a getter and no Delete, a Get(k) called after
\* Insert(k, v) has returned does not return none.
C7_GetAfterInsert ==
    \A t \in Threads :
        (role[t] = "get" /\ th[t].pc = "ret" /\ th[t].op = "Get") => th[t].res # None

\* --------------------------------------------- insert all, then delete all
\* Every key the draining client put in the tree has been deleted by a
\* Delete that returned.
Drained ==
    /\ ~panicked
    /\ \A t \in Threads : th[t].pc = "idle"
    /\ hist.took = hist.sent
    /\ hist.deld = hist.sent

\* C11: after any sequence of Inserts, every Delete the client calls, one for
\* each key of the tree in any order, returns; and when the last one has
\* returned the root is nil and the count is 0.
C11_DeleteAllEmpties ==
    /\ [](Drained => (root = NIL /\ count = 0))
    /\ \A t \in Threads :
          (role[t] = "drain" /\ th[t].op = "Delete" /\ th[t].pc = "D_check")
          ~> (th[t].pc = "ret")

\* C12: after NewRBTree and after every Insert and Delete of a sequential
\* run that has returned (also when the tree was emptied and inserted into
\* again), the count equals the number of nodes the root leads to.
C12_CountIsSize ==
    (~panicked /\ \A t \in Threads : th[t].pc \in {"idle", "ret"} /\ role[t] \in {"seq", "off"})
        => count = Cardinality(TreeNodes(node, root))

\* The draining client has only inserted so far, at least one key other
\* than the constructor's, and its last call has returned.
InsertedOnly ==
    /\ ~panicked
    /\ \A t \in Threads : th[t].pc \in {"idle", "ret"}
    /\ role[1] = "drain"
    /\ hist.took = {}
    /\ Cardinality(hist.sent) >= 2

\* C13: after NewRBTree and one or more Inserts of other keys the root is
\* black; and when four keys were built by the constructor and three Inserts
\* into the shape of TestInsertCase4 (a root with two children and one
\* grandchild under the left child), the root and its children are black
\* and the grandchild is red.
C13_RootIsBlack ==
    InsertedOnly =>
        /\ root # NIL
        /\ node[root].c = "black"
        /\ (/\ Cardinality(TreeNodes(node, root)) = 4
            /\ node[root].left # NIL /\ node[root].right # NIL
            /\ node[node[root].left].left # NIL)
           => /\ node[node[root].left].c = "black"
              /\ node[node[root].right].c = "black"
              /\ node[node[node[root].left].left].c = "red"

\* The parent links of the tree agree with its child links: the root has no
\* parent, every node a child link leads to has the node holding that link
\* as its parent, is the left or the right child of it and not both, and is
\* a node that is in use.
ParentLinks(nd, rt) ==
    /\ rt # NIL => nd[rt].parent = NIL
    /\ \A a \in TreeNodes(nd, rt) :
          /\ nd[a].c # "free"
          /\ nd[a].left # NIL => nd[nd[a].left].parent = a
          /\ nd[a].right # NIL => nd[nd[a].right].parent = a
          /\ a # rt =>
                /\ nd[a].parent \in TreeNodes(nd, rt)
                /\ (nd[nd[a].parent].left = a) # (nd[nd[a].parent].right = a)

\* C14: after every Insert and Delete of a sequential run that has returned,
\* the parent links are consistent.
C14_ParentLinksAfterEveryOp ==
    \A t \in Threads :
        (Returned(t, "Insert") \/ Returned(t, "Delete")) => ParentLinks(node, root)

\* An Insert has returned whose new node was rotated up to an inner place of
\* the tree: it has a parent and two children.
C14_Witness ==
    \E t \in Threads :
        /\ Returned(t, "Insert")
        /\ th[t].isNew
        /\ \E a \in TreeNodes(node, root) :
              /\ node[a].key = th[t].key
              /\ node[a].parent # NIL /\ node[a].left # NIL /\ node[a].right # NIL

\* No goroutine has dereferenced nil or used up its stack.
NoFault == ~panicked

\* C15: in a sequential run over any tree the calls reach (the emptied and
\* re-populated tree included) no Insert, Delete or Get ends in a runtime
\* fault, and every call that was made returns.
C15_CallsCompleteWithoutFault ==
    /\ []NoFault
    /\ \A t \in Threads :
          (role[t] = "seq" /\ th[t].pc \in {"I_root", "D_check", "G_call"})
          ~> (th[t].pc = "ret")

\* C16: a Get(k) that runs beside Inserts returns what the tree mapped k to
\* at some moment between its call and its return: a value k was associated
\* with, or none if k was absent at some moment of that interval.
C16_GetReturnsWhatExisted ==
    \A t \in Threads :
        (role[t] = "get" /\ ~panicked /\ th[t].op = "Get" /\ th[t].pc = "ret")
            => th[t].res \in hist.obs[t]

\* C17: on a tree at rest with no flag set, Check returns nil exactly when
\* no red node has a red child and every path from the root to a nil link
\* holds the same number of black nodes, and one of its two errors
\* otherwise; on the empty tree it returns nil; and it leaves the nodes, the
\* root and the count as they were.
C17_CheckTellsRedBlack ==
    \A t \in Threads :
        (role[t] = "check" /\ th[t].pc = "ret") =>
            /\ (th[t].err = "nil") <=>
                  (/\ NoRedRed(node, root)
                   /\ Cardinality(BlackHeights(node, root, MaxNodes + 1)) = 1)
            /\ th[t].err \in {"nil", "ErrParentChildDoublRed", "ErrBlackHeightMisMatch"}
            /\ root = NIL => th[t].err = "nil"
            /\ node = hist.pre.node /\ root = hist.pre.root /\ count = hist.pre.count

\* Check has told a full tree without a red-red pair from a balanced one.
C17_Witness ==
    \E t \in Threads :
        /\ role[t] = "check" /\ th[t].pc = "ret"
        /\ th[t].err = "ErrBlackHeightMisMatch"
        /\ NoRedRed(node, root)
        /\ Cardinality(TreeNodes(node, root)) = MaxShape

\* The nodes a writer holds: those whose flag it took and has not given
\* back, and those of its local area.
Holds(t) == th[t].held \cup Range(th[t].l)

\* C18: at every moment of any interleaving of Inserts and Deletes no node
\* is held by two writers: while a writer holds a node no lock() of another
\* writer on that node returns true.
C18_OneWriterPerFlag ==
    \A t, u \in Threads : (~panicked /\ t # u) => Holds(t) \cap Holds(u) = {}

\* The node a reader stands on: it has passed the flag check of get on it
\* and has not yet gone on to a child or returned.
ReaderAt(t) ==
    IF role[t] = "get" /\ th[t].pc \in {"get_inc", "get_cmp"} THEN {th[t].n} ELSE {}

\* C19: at no moment does a reader stand on a node whose flag a writer
\* holds (its lock() on the node returned true, which takes a reader count
\* of 0 read after the CAS, and it has not released the node).
C19_NoReaderOnLockedNode ==
    \A t, u \in Threads : (~panicked /\ t # u) => ReaderAt(t) \cap th[u].held = {}

\* The nodes a call of check(n, bc) looks into before it returns: it goes
\* no further at a flagged node, at a red node with a red child, and after
\* an error of the left subtree.
RECURSIVE Visited(_, _, _)
Visited(nd, n, fuel) ==
    IF n = NIL \/ fuel = 0 THEN {}
    ELSE IF nd[n].flag THEN {n}
    ELSE IF isRed(nd, n) /\ (isRed(nd, nd[n].left) \/ isRed(nd, nd[n].right)) THEN {n}
    ELSE {n} \cup Visited(nd, nd[n].left, fuel - 1)
             \cup (IF check(nd, nd[n].left, 0, fuel - 1).err # "nil" THEN {}
                   ELSE Visited(nd, nd[n].right, fuel - 1))

\* C20: a Check that runs while a writer is inside the tree and comes upon
\* a node whose flag is set returns nil.
C20_CheckSkipsFlagged ==
    (~panicked /\ \E a \in Visited(node, root, MaxNodes + 1) : node[a].flag)
        => Check(node, root) = "nil"

\* ------------------------------------------- whose fields a writer touches
\* The nodes whose links rotateLeft(n) and rotateRight(n) assign: the pivot,
\* the child that is promoted, the inner subtree that changes sides and the
\* old parent of the pivot.
RotateWrites(nd, n, isLeft) ==
    IF n = NIL THEN {}
    ELSE LET newn == IF isLeft THEN nd[n].right ELSE nd[n].left IN
         IF newn = NIL THEN {}
         ELSE ({n, newn, nd[n].parent}
                 \cup {IF isLeft THEN nd[newn].left ELSE nd[newn].right}) \ {NIL}

\* The nodes whose color, links or value the next step of an Insert assigns.
InsertWrites(t) ==
    LET r == th[t]
        x == r.x
        n == r.n
        up(a) == IF a = NIL THEN NIL ELSE node[a].parent
    IN
    CASE r.pc \in {"ins_link", "ins_rollback"} -> {n}
      [] r.pc = "ins_cmp" -> IF node[n].key = r.key THEN {n} ELSE {}
      [] r.pc = "mi_0" ->
           IF isRed(node, x) /\ up(x) # NIL /\ node[up(x)].c = "red" /\ up(up(x)) = NIL
           THEN {up(x)} ELSE {}
      [] r.pc = "mi_recolor" -> {up(x), up(up(x)), uncle(node, x)} \ {NIL}
      [] r.pc = "mi_undo" ->
           LET m == r.mstk[Len(r.mstk)] IN {up(m), up(up(m)), uncle(node, m)} \ {NIL}
      [] r.pc = "mi_rot1" ->
           IF up(x) = NIL THEN {}
           ELSE IF dir(node, x) # dir(node, up(x))
           THEN RotateWrites(node, up(x), dir(node, x) # "left")
           ELSE RotateWrites(node, up(up(x)), dir(node, x) # "left")
      [] r.pc = "mi_rot2" -> RotateWrites(node, up(x), r.br = "left")
      [] r.pc = "mi_col_b" ->
           {x, IF r.br = "left" THEN node[x].left ELSE node[x].right} \ {NIL}
      [] r.pc = "mi_col_s" -> {up(x), sibling(node, x)} \ {NIL}
      [] OTHER -> {}

\* C21: whenever an Insert is about to assign a field of a node (the link
\* of the parent of the new leaf, also when the link is taken back; a
\* color; a link a rotation rewires, in the pivot, the promoted child, the
\* inner subtree and the pivot's old parent), it holds the flag of that
\* node.
C21_InsertWritesUnderFlag ==
    \A t \in Threads :
        (~panicked /\ th[t].op = "Insert") => InsertWrites(t) \subseteq Holds(t)

\* The nodes whose color or links the next statement of maintainAfterDelete
\* assigns, from the test of the sibling's children on (Md1), from the
\* inner-nephew rotation on (Md2) and at the outer-nephew rotation (Md3).
Md3Writes(x) ==
    LET sb == sibling(node, x) IN
    IF sb = NIL THEN {}
    ELSE IF (dir(node, x) = "left" /\ isRed(node, node[sb].right))
              \/ (dir(node, x) = "right" /\ isRed(node, node[sb].left))
    THEN RotateWrites(node, node[x].parent, dir(node, x) = "left")
    ELSE {}

Md2Writes(x) ==
    LET sb == sibling(node, x) IN
    IF sb = NIL THEN {}
    ELSE IF (dir(node, x) = "left" /\ isRed(node, node[sb].left) /\ isBlack(node, node[sb].right))
              \/ (dir(node, x) = "right" /\ isRed(node, node[sb].right) /\ isBlack(node, node[sb].left))
    THEN RotateWrites(node, sb, dir(node, x) # "left")
    ELSE Md3Writes(x)

Md1Writes(x) ==
    LET sb == sibling(node, x)
        p == node[x].parent
    IN
    IF sb = NIL \/ p = NIL THEN {}
    ELSE IF isBlack(node, node[sb].left) /\ isBlack(node, node[sb].right)
    THEN IF isRed(node, p) THEN {sb, p} ELSE {sb}
    ELSE Md2Writes(x)

\* The nodes whose key, value, color or links the next step of a Delete
\* assigns.
DeleteWrites(t) ==
    LET r == th[t]
        x == r.x
        n == r.n
        up(a) == IF a = NIL THEN NIL ELSE node[a].parent
    IN
    CASE r.pc = "del_succ" -> IF node[r.s].left = NIL THEN {n, r.s} ELSE {}
      [] r.pc = "del_unlink" -> {up(n)} \ {NIL}
      [] r.pc = "del_rep2" -> {up(n), r.rep} \ {NIL}
      [] r.pc = "md_0" ->
           IF x = NIL \/ up(x) = NIL THEN {}
           ELSE IF isRed(node, sibling(node, x))
           THEN RotateWrites(node, up(x), dir(node, x) = "left")
           ELSE Md1Writes(x)
      [] r.pc = "md_0b" -> {r.s, up(x)} \ {NIL}
      [] r.pc = "md_1" -> Md1Writes(x)
      [] r.pc = "md_2b" ->
           LET sb == sibling(node, x) IN
           IF sb = NIL THEN {}
           ELSE {sb, IF dir(node, x) = "left" THEN node[sb].right ELSE node[sb].left} \ {NIL}
      [] r.pc = "md_3" -> Md3Writes(x)
      [] r.pc = "md_3b" ->
           IF up(x) = NIL \/ up(up(x)) = NIL THEN {}
           ELSE {up(x), up(up(x)), sibling(node, up(x))} \ {NIL}
      [] OTHER -> {}

\* C22: whenever a Delete is about to assign a field of a node (the key and
\* value of the target and of its successor, the link of the parent of the
\* node it removes, the replacement child, a color or a link in
\* maintainAfterDelete and its rotations), it holds the flag of that node.
C22_DeleteWritesUnderFlag ==
    \A t \in Threads :
        (~panicked /\ th[t].op = "Delete") => DeleteWrites(t) \subseteq Holds(t)

NoFlagSet == \A a \in TreeNodes(node, root) : ~node[a].flag

\* C23: in every state in which no node of the tree has its flag set, no
\* red node has a red child and every path from the root down to a nil link
\* passes the same number of black nodes.
C23_ValidWhenNoFlagSet ==
    (~panicked /\ NoFlagSet) =>
        /\ NoRedRed(node, root)
        /\ Cardinality(BlackHeights(node, root, MaxNodes)) = 1

\* The next step of goroutine t is the failing return of lockInsert or
\* lockDelete: the flag CAS was lost or given back for a reader (li_fail,
\* ld_fail), the node just locked is found marked, or the parent is found
\* locked.
AreaFails(t) ==
    LET r == th[t] IN
    \/ r.pc \in {"li_fail", "ld_fail"}
    \/ r.pc \in {"li_parent2", "li_sibling2", "li_gp2", "li_uncle2"} /\ LiMarked(r)
    \/ /\ r.pc = "ld_parent"
       /\ node[r.n].parent # NIL
       /\ node[node[r.n].parent].flag

\* The flags goroutine t has set and not given back when the acquisition
\* fails: those of the area collected so far and the one it has just won.
AreaSet(t) ==
    LET r == th[t] IN
    (Range(r.l) \cap r.held)
        \cup (IF r.pc \in {"li_parent2", "li_sibling2", "li_gp2", "li_uncle2"}
              THEN {r.lk} ELSE {})

\* C24: when lockInsert or lockDelete fails, every flag the goroutine had
\* set for the area is clear when the call returns, the flag it won on a
\* node it then found marked included, and the call clears no flag the
\* goroutine does not hold.
C24_FailedAreaReleasesOwnFlags ==
    [][\A t \in Threads :
          (AreaFails(t) /\ th'[t] # th[t] /\ ~panicked') =>
              /\ \A a \in AreaSet(t) : ~node'[a].flag
              /\ \A a \in Nodes : (node[a].flag /\ ~node'[a].flag) => a \in Holds(t)]_vars

\* The nodes whose marker goroutine t has set and not yet released: those
\* collected in m and the one whose marker CAS has just succeeded.
MarkedBy(t) ==
    LET r == th[t] IN
    Range(r.m) \cup (IF r.pc \in {"gm_rel", "gu_rel"} THEN {GmTarget(r)} \ {NIL} ELSE {})

\* The next step of goroutine u is in a caller of lock() that goes on
\* without looking at the marker: the descents of insert and delete, and
\* lockDelete.
LockKept(u) == th[u].pc \in {"ins_lock", "ins_lockins", "del_lock"} \cup lockDeletePcs

\* C25: while a node carries the marker set by one goroutine, no step of
\* another goroutine acquires the flag of that node or changes its marker.
C25_MarkerExcludesOtherWriters ==
    [][\A t \in Threads : \A u \in Threads \ {t} : \A a \in MarkedBy(t) :
          (node[a].marker /\ th'[u] # th[u] /\ ~panicked') =>
              /\ LockKept(u) => ~(~node[a].flag /\ node'[a].flag)
              /\ node'[a].marker]_vars

\* Goroutine t stands in one of getMarker's Sleep loops on a node whose flag
\* or marker another goroutine holds.
WaitsForOther(t) ==
    /\ GmSpinning(t)
    /\ \E u \in Threads \ {t} : GmTarget(th[t]) \in Holds(u) \cup MarkedBy(u)

\* C26: inside one attempt of delete a goroutine never waits for another
\* one: it is never in a loop that sleeps until a flag or a marker held by
\* another goroutine is given back.
C26_NoWaitInsideAttempt == \A t \in Threads : ~panicked => ~WaitsForOther(t)

NoMarker == \A a \in Nodes : ~node[a].marker

RECURSIVE Up(_, _, _)
Up(nd, a, n) == IF a = NIL \/ n = 0 THEN a ELSE Up(nd, nd[a].parent, n - 1)

IsLeaf(nd, a) == a # NIL /\ nd[a].left = NIL /\ nd[a].right = NIL

TallTargets(nd, rt) ==
    {a \in TreeNodes(nd, rt) :
        /\ nd[a].c = "black"
        /\ IsLeaf(nd, nd[a].left) /\ nd[nd[a].left].c = "black"
        /\ IsLeaf(nd, nd[a].right) /\ nd[nd[a].right].c = "black"
        /\ Up(nd, a, MarkerDepth + 2) # NIL}

TallKeys == 1..(MaxTall - 1)
TallFilled == hist.sent = TallKeys /\ hist.insd = TallKeys

TallInsert(t) ==
    /\ At(t, {"idle"})
    /\ role[t] = "tall"
    /\ hist.sent # TallKeys
    /\ LET k == Min(TallKeys \ hist.sent) IN
       Call(t, "Insert", k, 1, "I_root", [hist EXCEPT !.sent = @ \cup {k}])

TallUpdate(t) ==
    /\ At(t, {"idle"})
    /\ role[t] = "tall"
    /\ TallFilled
    /\ hist.ops = 0
    /\ \E a \in TallTargets(node, root) : \E c \in {node[a].left, node[a].right} :
          Call(t, "Insert", node[c].key, 2, "I_root", [hist EXCEPT !.ops = 1])

TallDelete(t) ==
    /\ At(t, {"idle"})
    /\ role[t] = "del"
    /\ TallFilled
    /\ hist.took = {}
    /\ \E a \in TallTargets(node, root) :
          Call(t, "Delete", node[a].key, 0, "D_check", [hist EXCEPT !.took = {node[a].key}])

TallInit ==
    /\ node = [a \in 1..MaxTall |-> IF a = 1 THEN NewNode(0, 1, NIL) ELSE FreeNode]
    /\ root = 1
    /\ count = 1
    /\ th = [t \in Threads |-> R0]
    /\ role = [t \in Threads |-> IF t = 1 THEN "tall" ELSE IF t = 2 THEN "del" ELSE "off"]
    /\ hist = H0
    /\ panicked = FALSE

TallNext ==
    \E t \in Threads :
        \/ TallInsert(t)
        \/ TallUpdate(t)
        \/ TallDelete(t)
        \/ Return(t)
        \/ InsertStep(t)
        \/ insertStep(t)
        \/ lockInsertStep(t)
        \/ maintainAfterInsertStep(t)
        \/ lockStep(t)
        \/ DeleteStep(t)
        \/ deleteStep(t)
        \/ lockDeleteStep(t)
        \/ getMarkerStep(t)
        \/ maintainAfterDeleteStep(t)
        \/ UnwindStep(t)

TallSpec == TallInit /\ [][TallNext]_vars

\* C28: at any moment the nodes that carry the marker of one call are at
\* most four.
C28_AtMostFourMarkers ==
    \A t \in Threads : ~panicked => Cardinality(MarkedBy(t)) <= MarkerDepth

\* The flags goroutine t has set, has not given back, and that are still
\* set.
FlagsHeld(t) == {a \in th[t].held : node[a].flag}

\* The most nodes a local area of lockInsert has: the node, its parent, its
\* sibling, its grandparent and its uncle.
AreaSize == 5

\* C29: at any moment an Insert holds the flags of at most five nodes.
C29_InsertHoldsOneArea ==
    \A t \in Threads :
        (~panicked /\ th[t].op = "Insert") => Cardinality(FlagsHeld(t)) <= AreaSize

\* ------------------------------------------------ clients around the root
\* Two goroutines on the tree NewRBTree(0, _): each of them calls Insert
\* with a key of 1..MaxRoot that has not been sent yet, and one of them
\* calls Delete(0), which empties the tree when 0 is its only key.
RootKeys == 1..MaxRoot

RootInsert(t) ==
    /\ At(t, {"idle"})
    /\ role[t] = "root"
    /\ \E k \in RootKeys \ hist.sent :
          Call(t, "Insert", k, 1, "I_root", [hist EXCEPT !.sent = @ \cup {k}])

RootDelete(t) ==
    /\ At(t, {"idle"})
    /\ role[t] = "root"
    /\ hist.took = {}
    /\ Call(t, "Delete", 0, 0, "D_check", [hist EXCEPT !.took = {0}])

RootInit ==
    /\ NewRBTree(0, 1)
    /\ th = [t \in Threads |-> R0]
    /\ role = [t \in Threads |-> "root"]
    /\ hist = H0
    /\ panicked = FALSE

RootNext ==
    \E t \in Threads :
        \/ RootInsert(t)
        \/ RootDelete(t)
        \/ Return(t)
        \/ InsertStep(t)
        \/ insertStep(t)
        \/ lockInsertStep(t)
        \/ maintainAfterInsertStep(t)
        \/ lockStep(t)
        \/ DeleteStep(t)
        \/ deleteStep(t)
        \/ lockDeleteStep(t)
        \/ getMarkerStep(t)
        \/ maintainAfterDeleteStep(t)
        \/ UnwindStep(t)

RootSpec == RootInit /\ [][RootNext]_vars

\* C30: no call replaces a root that another call installed meanwhile, so
\* once no call is running every key whose Insert has returned, and that
\* nobody deleted, is in the tree.
C30_RootChangesKeepKeys ==
    Quiescent => \A k \in hist.insd \ hist.took : Lookup(node, root, k) # None

ReadPath == {"G_call", "G_after", "get_chk", "get_inc", "get_cmp"}

\* C31: a Delete is never on the read path, and when it returns a value
\* a step of the call has taken its key out of the tree and the call has
\* decremented count exactly once.
C31_DeleteRetriesDelete ==
    \A t \in Threads :
        (~panicked /\ th[t].op = "Delete") =>
            /\ th[t].pc \notin ReadPath
            /\ (th[t].pc = "ret" /\ th[t].res # None) =>
                  /\ th[t].gone
                  /\ th[t].dec = 1

\* A Delete that went round its retry loop beside a call of another
\* goroutine has returned a value.
C31_Witness ==
    \E t \in Threads :
        /\ ~panicked /\ th[t].op = "Delete" /\ th[t].pc = "ret"
        /\ th[t].res # None /\ th[t].again

\* The failed attempt of goroutine t takes its rollback step: `n.left = nil`
\* or `n.right = nil` before `return true, false`.
RollsBack(t) == th[t].pc = "ins_rollback" /\ th'[t].pc = "unwind"

\* C32: the rollback of a failed Insert attempt takes out of the tree the
\* leaf the attempt linked and nothing else, and leaves count as it was.
C32_FailedInsertLeavesTree ==
    [][\A t \in Threads :
          RollsBack(t) =>
              /\ TreeNodes(node', root') = TreeNodes(node, root) \ {th[t].ins}
              /\ count' = count]_vars

\* The flags a step of the program clears: unlock()'s CompareAndSwap(true,
\* false) succeeds, alone or inside unlockArea(), or lock() and getMarker
\* give the flag back.
Unlocked == {a \in Nodes : node[a].flag /\ node'[a].c # "free" /\ ~node'[a].flag}

\* C33: every flag a step of an operation clears is one the operation has
\* acquired and not yet released.
C33_UnlocksOwnFlags ==
    [][\A t \in Threads :
          (th[t].pc \notin {"idle", "ret"} /\ th'[t] # th[t] /\ ~panicked') =>
              Unlocked \subseteq th[t].held]_vars

\* --------------------------------------------- a flag nobody gives back
\* One goroutine builds the tree 7(3(1,5),13(11(9,-),15)) with the Inserts
\* of LeakKeys after NewRBTree(LeakKeys[1], 1) and then inserts the keys of
\* LeakNew, while the other one deletes LeakGone: the new key under 9 takes
\* the Insert down the path of the Delete, the new key under 1 makes
\* maintainAfterInsert go up to the node of key 3 and lock its sibling.
LeakKeys == <<15, 7, 5, 13, 11, 1, 9, 3>>
LeakNew == {0, 8}
LeakGone == {9}
LeakHeap == Len(LeakKeys) + Cardinality(LeakNew) + Cardinality(LeakNew)
LeakBuilt == hist.ops = Len(LeakKeys) - 1 /\ Range(Tail(LeakKeys)) \subseteq hist.insd

LeakBuild(t) ==
    /\ At(t, {"idle"})
    /\ role[t] = "leak"
    /\ hist.ops < Len(LeakKeys) - 1
    /\ Call(t, "Insert", LeakKeys[hist.ops + 2], 1, "I_root", [hist EXCEPT !.ops = @ + 1])

LeakInsert(t) ==
    /\ At(t, {"idle"})
    /\ role[t] = "leak"
    /\ LeakBuilt
    /\ \E k \in LeakNew \ hist.sent :
          Call(t, "Insert", k, 1, "I_root", [hist EXCEPT !.sent = @ \cup {k}])

LeakDelete(t) ==
    /\ At(t, {"idle"})
    /\ role[t] = "del"
    /\ LeakBuilt
    /\ \E k \in LeakGone \ hist.took :
          Call(t, "Delete", k, 0, "D_check", [hist EXCEPT !.took = @ \cup {k}])

LeakInit ==
    /\ node = [a \in 1..LeakHeap |-> IF a = 1 THEN NewNode(LeakKeys[1], 1, NIL) ELSE FreeNode]
    /\ root = 1
    /\ count = 1
    /\ th = [t \in Threads |-> R0]
    /\ role = [t \in Threads |-> IF t = 1 THEN "leak" ELSE IF t = 2 THEN "del" ELSE "off"]
    /\ hist = H0
    /\ panicked = FALSE

LeakNext ==
    \E t \in Threads :
        \/ LeakBuild(t)
        \/ LeakInsert(t)
        \/ LeakDelete(t)
        \/ Return(t)
        \/ InsertStep(t)
        \/ insertStep(t)
        \/ lockInsertStep(t)
        \/ maintainAfterInsertStep(t)
        \/ lockStep(t)
        \/ DeleteStep(t)
        \/ deleteStep(t)
        \/ lockDeleteStep(t)
        \/ getMarkerStep(t)
        \/ maintainAfterDeleteStep(t)
        \/ UnwindStep(t)

LeakSpec == LeakInit /\ [][LeakNext]_vars

\* Goroutine t is outside every attempt: it runs no operation, or its call
\* of insert, delete or get has just returned to the retry loop.
AtRest(t) == th[t].pc \in {"idle", "ret", "I_after", "D_after", "G_after"}

FlagsOf(v) == th[v].held \cup (IF th[v].pc = "lock_hp" THEN {th[v].lk} ELSE {})

\* The Deletes of the set S are all in one of getMarker's Sleep loops, each
\* on a flag or a marker that a member of S has set and no goroutine outside
\* S has: the flag of a node of its local area or of its descent, or a
\* marker it has set.
DeadSet(S) ==
    \A t \in S :
        /\ th[t].op = "Delete"
        /\ GmSpinning(t)
        /\ IF th[t].pc \in {"gm_flag", "gu_flag"}
           THEN /\ \E u \in S : GmTarget(th[t]) \in FlagsOf(u)
                /\ \A v \in Threads \ S : GmTarget(th[t]) \notin FlagsOf(v)
           ELSE /\ \E u \in S : GmTarget(th[t]) \in MarkedBy(u)
                /\ \A v \in Threads \ S : GmTarget(th[t]) \notin MarkedBy(v)

\* C35: no set of Deletes is ever waiting in getMarker only for its own
\* members.
C35_NoWriterDeadlock ==
    ~panicked => \A S \in SUBSET Threads : S # {} => ~DeadSet(S)

\* ------------------------------------- the rebalancing steps on their own
\* A test harness that runs maintainAfterDelete and the unlink of delete's
\* leaf case, or one rotation, on a tree at rest.  The trees are the red-black
\* trees over the places 1..MaxFix: keys ascend from left to right, no red
\* node has a red child, every path holds the same number of black nodes;
\* for the rotations every marker may be set.
FixPlaces == 1..MaxFix

RECURSIVE FixKey(_)
FixKey(a) ==
    IF a <= 1 THEN Pow2(Depth(MaxFix))
    ELSE IF a % 2 = 0 THEN FixKey(a \div 2) - Pow2(Depth(MaxFix) - Depth(a))
    ELSE FixKey(a \div 2) + Pow2(Depth(MaxFix) - Depth(a))

\* The colourings of the subtree at place a with h black nodes on every
\* path, as sets of <<place, colour>>.
RECURSIVE RedBlack(_, _, _)
RedBlack(a, h, redOk) ==
    (IF h = 0 THEN {{}} ELSE {})
    \cup (IF h >= 1 /\ a \in FixPlaces
          THEN {{<<a, "black">>} \cup L \cup R :
                    L \in RedBlack(2 * a, h - 1, TRUE), R \in RedBlack(2 * a + 1, h - 1, TRUE)}
          ELSE {})
    \cup (IF redOk /\ a \in FixPlaces
          THEN {{<<a, "red">>} \cup L \cup R :
                    L \in RedBlack(2 * a, h, FALSE), R \in RedBlack(2 * a + 1, h, FALSE)}
          ELSE {})

FixTree(sh, marked) ==
    LET used == {q[1] : q \in sh}
        col(a) == (CHOOSE q \in sh : q[1] = a)[2]
    IN [a \in FixPlaces |->
          IF a \in used
          THEN [c |-> col(a),
                left |-> IF 2 * a \in used THEN 2 * a ELSE NIL,
                right |-> IF 2 * a + 1 \in used THEN 2 * a + 1 ELSE NIL,
                parent |-> IF a = 1 THEN NIL ELSE a \div 2,
                key |-> FixKey(a), value |-> 1,
                flag |-> FALSE, hpflag |-> 0, marker |-> marked]
          ELSE FreeNode]

FixInit ==
    /\ \E h \in 1..Depth(MaxFix) : \E sh \in RedBlack(1, h, TRUE) : \E marked \in BOOLEAN :
          /\ node = FixTree(sh, marked)
          /\ root = 1
          /\ count = Cardinality(sh)
    /\ th = [t \in Threads |-> R0]
    /\ role = [t \in Threads |-> IF t = 1 THEN "fix" ELSE "off"]
    /\ hist = H0
    /\ panicked = FALSE

\* t.maintainAfterDelete(n, l, m) and what delete does after it, for a black
\* leaf n that is not the root
FixCall(t) ==
    /\ At(t, {"idle"})
    /\ role[t] = "fix"
    /\ hist.ops = 0
    /\ \A a \in TreeNodes(node, root) : ~node[a].marker
    /\ \E n \in TreeNodes(node, root) :
          /\ IsLeaf(node, n) /\ node[n].c = "black" /\ n # root
          /\ th' = [th EXCEPT ![t] = [R0 EXCEPT !.pc = "md_0", !.op = "Delete", !.n = n, !.x = n,
                                                !.key = node[n].key, !.v = node[n].value]]
          /\ hist' = [hist EXCEPT !.ops = 1,
                                  !.last = [op |-> "maintainAfterDelete", key |-> node[n].key, val |-> 0]]
    /\ UNCHANGED <<node, root, count, role, panicked>>

\* t.rotateLeft(n) or t.rotateRight(n) for a node n of the tree
RotateCall(t) ==
    /\ At(t, {"idle"})
    /\ role[t] = "fix"
    /\ hist.ops = 0
    /\ \E n \in TreeNodes(node, root) : \E f \in {"rotateLeft", "rotateRight"} :
          LET h == IF f = "rotateLeft" THEN rotateLeft(node, root, n)
                   ELSE rotateRight(node, root, n)
          IN /\ node' = h.node
             /\ root' = h.root
             /\ th' = [th EXCEPT ![t] = [R0 EXCEPT !.pc = "ret", !.op = f, !.n = n]]
             /\ hist' = [hist EXCEPT !.ops = 1, !.last = [op |-> f, key |-> node[n].key, val |-> 0]]
    /\ UNCHANGED <<count, role, panicked>>

FixNext ==
    \E t \in Threads :
        \/ FixCall(t)
        \/ RotateCall(t)
        \/ maintainAfterDeleteStep(t)
        \/ getMarkerStep(t)
        \/ deleteStep(t)
        \/ UnwindStep(t)
        \/ DeleteStep(t)

FixSpec == FixInit /\ [][FixNext]_vars

\* The harness has run maintainAfterDelete and the unlink to the end.
Rebalanced(t) ==
    role[t] = "fix" /\ th[t].op = "Delete" /\ th[t].pc = "ret"

\* C36: maintainAfterDelete on a black leaf that is not the root of a
\* red-black search tree, followed by the unlink of the leaf, runs to its end
\* and leaves a tree in which no red node has a red child, every path holds
\* the same number of black nodes, the keys ascend in order, and the keys
\* are those of the tree before without the key of the leaf.
C36_RebalanceKeepsTree ==
    \A t \in Threads :
        /\ (role[t] = "fix" /\ th[t].op = "Delete") => ~panicked
        /\ Rebalanced(t) =>
              /\ NoRedRed(node, root)
              /\ Cardinality(BlackHeights(node, root, MaxFix + 1)) = 1
              /\ Ascending(InOrder(node, root, MaxFix + 1))
              /\ Range(InOrder(node, root, MaxFix + 1))
                    = Range(InOrder(hist.pre.node, hist.pre.root, MaxFix + 1)) \ {th[t].key}

\* The rebalancing went up a level and then rotated.
C36_Witness ==
    \E t \in Threads :
        /\ Rebalanced(t)
        /\ hist.pre.node[hist.pre.root].left # node[root].left
        /\ hist.pre.node[hist.pre.root].right # node[root].right
        /\ Cardinality(TreeNodes(node, root)) >= MaxFix \div 2

\* The harness has run rotateLeft(n) or rotateRight(n).
Rotated(t) ==
    role[t] = "fix" /\ th[t].op \in {"rotateLeft", "rotateRight"} /\ th[t].pc = "ret"

\* The child of n that the rotation promotes, in the tree before.
Promoted(t) ==
    IF th[t].op = "rotateLeft" THEN hist.pre.node[th[t].n].right
    ELSE hist.pre.node[th[t].n].left

\* C37: rotateLeft(n) and rotateRight(n) on a node with the child they
\* promote keep the in-order sequence of the keys and every colour, leave the
\* parent links consistent, make the promoted child the root when n was the
\* root, and leave the markers of n, of the promoted child and of the parent
\* n had clear; without that child they change nothing.
C37_RotationKeepsTree ==
    \A t \in Threads :
        Rotated(t) =>
            LET n == th[t].n
                pre == hist.pre.node
                p == pre[n].parent
            IN IF Promoted(t) = NIL
               THEN node = pre /\ root = hist.pre.root
               ELSE /\ InOrder(node, root, MaxFix + 1) = InOrder(pre, hist.pre.root, MaxFix + 1)
                    /\ ParentLinks(node, root)
                    /\ hist.pre.root = n => root = Promoted(t)
                    /\ \A a \in FixPlaces : node[a].c = pre[a].c
                    /\ ~node[n].marker
                    /\ ~node[Promoted(t)].marker
                    /\ p # NIL => ~node[p].marker

\* A rotation below the root of a tree whose markers were set.
C37_Witness ==
    \E t \in Threads :
        /\ Rotated(t)
        /\ Promoted(t) # NIL
        /\ hist.pre.node[th[t].n].parent # NIL
        /\ hist.pre.node[th[t].n].marker
        /\ node[root].left # NIL /\ node[node[root].left].marker

====
